---------------------------- MODULE Spec2Model ----------------------------
(***************************************************************************)
(* A model of rutabaga_gfx's rutabaga_core.rs: the RutabagaBuilder, the    *)
(* Rutabaga orchestrator (resource registry, context registry, component   *)
(* set, capset catalog) and the capset mask helpers; and of the request    *)
(* queue worker of the virtio-scsi device (devices/virtio/scsi/device.rs). *)
(*                                                                         *)
(* Every orchestrator method is a pure operator over the Rutabaga struct   *)
(* value `rb` and the outcome `out` of the backend call it delegates to    *)
(* (backends are opaque: their outcome is an input).  It returns           *)
(*   [rb |-> the struct afterwards, result |-> "Ok" or the RutabagaError,  *)
(*    value |-> the returned value as an Option, effects |-> the trait     *)
(*    methods invoked and the registry writes, in program order].          *)
(* The actions apply these operators to the state.                         *)
(*                                                                         *)
(* Option<T> is modelled as a set: None == {}, Some(x) == {x}.             *)
(***************************************************************************)
EXTENDS Integers, Sequences, FiniteSets, TLC

VARIABLES
    builder,      \* Option<RutabagaBuilder>: the builder under construction
    rutabaga,     \* Option<Rutabaga>: the orchestrator returned by build
    built,        \* Option: what the call of build returned (and was given)
    unrefd,       \* history: resource ids unref'd and not created again since
    capset_calc,  \* the embedder's capset names, their mask and its decoding
    attachments,  \* history: the <<ctx_id, resource_id>> attached and not detached
    worker        \* the virtio-scsi worker: its request queue, tasks and position

gfx_vars == <<builder, rutabaga, built, unrefd, capset_calc, attachments>>

vars == <<builder, rutabaga, built, unrefd, capset_calc, attachments, worker>>

\* ------------------------------------------------------------------ bounds

\* Guest resource ids are 1..MaxResourceId.
MaxResourceId == 2
\* Guest context ids are 0..MaxCtxId (0 is the reserved context id).
MaxCtxId == 1
\* Arc strong references to one handle, the resource's own included.
MaxStrong == 2
\* Length of the capset name lists handed to calculate_context_mask.
MaxNames == 6
\* Capset ids the guest asks for are 0..MaxCapsetInput (0 is unknown).
MaxCapsetInput == 6
\* The highest bit a builder's context mask may have set.
MaxMaskBit == 6
\* How many exports in a row of one resource the properties look at.
MaxExports == 3

ResourceIds == 1..MaxResourceId
CtxIds == 0..MaxCtxId

\* ------------------------------------------------------------------ Option

None == {}
Some(x) == {x}
IsSome(o) == o # {}
Unwrap(o) == CHOOSE x \in o : TRUE

\* ------------------------------------------------------- component types

ComponentTypes == {"Rutabaga2D", "VirglRenderer", "Gfxstream", "CrossDomain"}

\* Capset ids (rutabaga_utils.rs).
RUTABAGA_CAPSET_VIRGL == 1
RUTABAGA_CAPSET_VIRGL2 == 2
RUTABAGA_CAPSET_GFXSTREAM == 3
RUTABAGA_CAPSET_VENUS == 4
RUTABAGA_CAPSET_CROSS_DOMAIN == 5
RUTABAGA_CAPSET_DRM == 6

\* The bits of context_init that carry the capset id (rutabaga_utils.rs).
RUTABAGA_CONTEXT_INIT_CAPSET_ID_MASK == 255

RutabagaCapsetInfo(id, comp, nm) == [capset_id |-> id, component |-> comp, name |-> nm]

RUTABAGA_CAPSETS ==
    << RutabagaCapsetInfo(RUTABAGA_CAPSET_VIRGL, "VirglRenderer", "virgl"),
       RutabagaCapsetInfo(RUTABAGA_CAPSET_VIRGL2, "VirglRenderer", "virgl2"),
       RutabagaCapsetInfo(RUTABAGA_CAPSET_GFXSTREAM, "Gfxstream", "gfxstream"),
       RutabagaCapsetInfo(RUTABAGA_CAPSET_VENUS, "VirglRenderer", "venus"),
       RutabagaCapsetInfo(RUTABAGA_CAPSET_CROSS_DOMAIN, "CrossDomain", "cross-domain"),
       RutabagaCapsetInfo(RUTABAGA_CAPSET_DRM, "VirglRenderer", "drm") >>

\* ------------------------------------------------------------ bit helpers

\* `1 << n` on u64 (n stays below 64 for every capset id of the catalog).
Shl1(n) == 2 ^ n
\* mask & (1 << n) != 0
BitSet(mask, n) == (mask \div Shl1(n)) % 2 = 1
\* mask | (1 << n)
BitOr1(mask, n) == IF BitSet(mask, n) THEN mask ELSE mask + Shl1(n)

\* a & b on unsigned integers.
RECURSIVE BitAnd(_, _)
BitAnd(a, b) ==
    IF a = 0 \/ b = 0 THEN 0
    ELSE (a % 2) * (b % 2) + 2 * BitAnd(a \div 2, b \div 2)

\* RUTABAGA_CAPSETS.iter().find(|capset| capset.name == name), as an Option.
FindCapsetByName(capsets, name) ==
    LET hits == {i \in 1..Len(capsets) : capsets[i].name = name}
    IN  IF hits = {} THEN None
        ELSE Some(capsets[CHOOSE i \in hits : \A j \in hits : i <= j])

\* iter().find(|capset| capset.capset_id == capset_id), as an Option.
FindCapsetById(capsets, capset_id) ==
    LET hits == {i \in 1..Len(capsets) : capsets[i].capset_id = capset_id}
    IN  IF hits = {} THEN None
        ELSE Some(capsets[CHOOSE i \in hits : \A j \in hits : i <= j])

\* -------------------------------------------- calculate_context_mask/types

RECURSIVE MaskFold(_, _)
MaskFold(context_names, context_mask) ==
    IF context_names = << >> THEN context_mask
    ELSE LET name == Head(context_names)
             capset == FindCapsetByName(RUTABAGA_CAPSETS, name)
         IN  MaskFold(Tail(context_names),
                      IF IsSome(capset)
                      THEN BitOr1(context_mask, Unwrap(capset).capset_id)
                      ELSE context_mask)

calculate_context_mask(context_names) == MaskFold(context_names, 0)

RECURSIVE TypesFrom(_, _)
TypesFrom(i, context_mask) ==
    IF i > Len(RUTABAGA_CAPSETS) THEN << >>
    ELSE LET capset == RUTABAGA_CAPSETS[i]
         IN  (IF BitSet(context_mask, capset.capset_id) THEN <<capset.name>> ELSE << >>)
             \o TypesFrom(i + 1, context_mask)

\* A decoding that starts after the catalog's first entry.
calculate_context_types_skip_first(context_mask) == TypesFrom(2, context_mask)

calculate_context_types(context_mask) == TypesFrom(1, context_mask)

\* ------------------------------------------------------- RutabagaBuilder

\* What a handler returns: the orchestrator afterwards, the result, the
\* returned value, and its effects in program order: the trait methods (or
\* component inits) it invoked and its writes to the registries.
Ret(rb, result, value, effects) ==
    [rb |-> rb, result |-> result, value |-> value, effects |-> effects]

\* RutabagaBuilder::new
RutabagaBuilder_new(default_component, context_mask) ==
    [display_width |-> None, display_height |-> None,
     default_component |-> default_component, context_mask |-> context_mask]

set_display_width(self, display_width) ==
    [self EXCEPT !.display_width = Some(display_width)]

set_display_height(self, display_height) ==
    [self EXCEPT !.display_height = Some(display_height)]

\* The closure capset_enabled of build.
capset_enabled(context_mask, capset_id) == BitSet(context_mask, capset_id)

\* A push_capset that does not look at the mask.
push_capset_unmasked(rutabaga_capsets, context_mask, capset_id) ==
    LET capset == FindCapsetById(RUTABAGA_CAPSETS, capset_id)
    IN  IF IsSome(capset) THEN Append(rutabaga_capsets, Unwrap(capset))
        ELSE rutabaga_capsets

\* The closure push_capset of build: rutabaga_capsets afterwards.
push_capset(rutabaga_capsets, context_mask, capset_id) ==
    LET capset == FindCapsetById(RUTABAGA_CAPSETS, capset_id)
    IN  IF IsSome(capset)
        THEN IF context_mask # 0
             THEN IF capset_enabled(context_mask, Unwrap(capset).capset_id)
                  THEN Append(rutabaga_capsets, Unwrap(capset))
                  ELSE rutabaga_capsets
             ELSE Append(rutabaga_capsets, Unwrap(capset))
        ELSE rutabaga_capsets

\* The default component build settles on: inferred from a nonzero mask.
resolved_default(self) ==
    IF self.context_mask # 0
    THEN LET supports_gfxstream == capset_enabled(self.context_mask, RUTABAGA_CAPSET_GFXSTREAM)
             supports_virglrenderer ==
                 \/ capset_enabled(self.context_mask, RUTABAGA_CAPSET_VIRGL2)
                 \/ capset_enabled(self.context_mask, RUTABAGA_CAPSET_VENUS)
                 \/ capset_enabled(self.context_mask, RUTABAGA_CAPSET_DRM)
         IN  IF supports_gfxstream THEN "Gfxstream"
             ELSE IF supports_virglrenderer THEN "VirglRenderer"
             ELSE "CrossDomain"
    ELSE self.default_component

\* The compile-time configurations: cargo features and the target OS.
BuildConfigs ==
    [virgl_renderer : BOOLEAN, gfxstream : BOOLEAN, fuchsia : BOOLEAN]

\* A feature check that knows of the virgl_renderer feature only.
default_disabled_virgl_only(cfg, default_component) ==
    ~cfg.virgl_renderer /\ default_component = "VirglRenderer"

\* "Make sure that disabled components are not used as default": whether
\* build rejects default_component because its feature is not compiled in.
default_disabled(cfg, default_component) ==
    \/ ~cfg.virgl_renderer /\ default_component = "VirglRenderer"
    \/ ~cfg.gfxstream /\ default_component = "Gfxstream"

\* An init whose error build ignores.
init_never_fails(component, failing) == FALSE

\* `X::init(..)?`: whether the init of `component` returns an error, which
\* build then returns.
init_fails(component, failing) == component \in failing

\* A cross-domain stage that is compiled on every target.
cross_domain_everywhere(cfg) == TRUE

\* #[cfg(not(target_os = "fuchsia"))]: whether the cross-domain stage of
\* build is compiled.
cross_domain_compiled(cfg) == ~cfg.fuchsia

\* RutabagaBuilder::build under the compile-time configuration cfg; `failing`
\* is the set of components whose init returns an error.  effects lists the
\* component inits invoked, in order; rb is the Option<Rutabaga> returned.
build(self, cfg, failing) ==
    LET default_component == resolved_default(self)
        mask == self.context_mask
        Fail(e, inits) == Ret(None, e, None, inits)
        Done(comps, capsets, inits) ==
            LET r == [resources |-> << >>, contexts |-> << >>,
                      components |-> comps,
                      default_component |-> default_component,
                      capset_info |-> capsets]
            IN  Ret(Some(r), "Ok", Some(r), inits)
        CrossStage(comps, capsets, inits) ==
            IF cross_domain_compiled(cfg)
            THEN IF init_fails("CrossDomain", failing)
                 THEN Fail("ComponentError", Append(inits, "CrossDomain"))
                 ELSE Done(comps \cup {"CrossDomain"},
                           push_capset(capsets, mask, RUTABAGA_CAPSET_CROSS_DOMAIN),
                           Append(inits, "CrossDomain"))
            ELSE Done(comps, capsets, inits)
        GfxStage(comps, capsets, inits) ==
            IF cfg.gfxstream /\ default_component = "Gfxstream"
            THEN IF self.display_width = None THEN Fail("InvalidRutabagaBuild", inits)
                 ELSE IF self.display_height = None THEN Fail("InvalidRutabagaBuild", inits)
                 ELSE IF init_fails("Gfxstream", failing)
                      THEN Fail("ComponentError", Append(inits, "Gfxstream"))
                 ELSE CrossStage(comps \cup {"Gfxstream"},
                                 push_capset(capsets, mask, RUTABAGA_CAPSET_GFXSTREAM),
                                 Append(inits, "Gfxstream"))
            ELSE CrossStage(comps, capsets, inits)
        VirglStage(comps, capsets, inits) ==
            IF cfg.virgl_renderer /\ default_component = "VirglRenderer"
            THEN IF init_fails("VirglRenderer", failing)
                 THEN Fail("ComponentError", Append(inits, "VirglRenderer"))
                 ELSE GfxStage(comps \cup {"VirglRenderer"},
                               push_capset(push_capset(push_capset(push_capset(capsets,
                                   mask, RUTABAGA_CAPSET_VIRGL),
                                   mask, RUTABAGA_CAPSET_VIRGL2),
                                   mask, RUTABAGA_CAPSET_VENUS),
                                   mask, RUTABAGA_CAPSET_DRM),
                               Append(inits, "VirglRenderer"))
            ELSE GfxStage(comps, capsets, inits)
    IN  IF default_disabled(cfg, default_component)
        THEN Fail("InvalidRutabagaBuild", << >>)
        ELSE IF default_component = "Rutabaga2D"
        THEN IF init_fails("Rutabaga2D", failing)
             THEN Fail("ComponentError", <<"Rutabaga2D">>)
             ELSE Done({"Rutabaga2D"}, << >>, <<"Rutabaga2D">>)
        ELSE VirglStage({}, << >>, << >>)

\* ------------------------------------------------------------- resources

\* The blob flag bits (a u32 bitmask, modelled as the set of bits set).
RUTABAGA_BLOB_FLAG_USE_MAPPABLE == "USE_MAPPABLE"
RUTABAGA_BLOB_FLAG_USE_SHAREABLE == "USE_SHAREABLE"
RUTABAGA_BLOB_FLAG_USE_CROSS_DEVICE == "USE_CROSS_DEVICE"

\* The fence flag bit that selects a context's own timeline.
RUTABAGA_FLAG_INFO_RING_IDX == "INFO_RING_IDX"

\* An Arc<RutabagaHandle>: the OS object it wraps and the Arc's strong count.
ArcHandle(object, strong) == [object |-> object, strong |-> strong]

\* struct RutabagaResource
RutabagaResource(resource_id, handle, blob, blob_flags, map_info, info_2d, info_3d, vulkan_info) ==
    [resource_id |-> resource_id, handle |-> handle, blob |-> blob,
     blob_mem |-> 0, blob_flags |-> blob_flags, map_info |-> map_info,
     info_2d |-> info_2d, info_3d |-> info_3d, vulkan_info |-> vulkan_info,
     backing_iovecs |-> None, import_mask |-> 0]

\* Map::insert / Map::remove / Map::contains_key on the BTreeMap registries.
MapInsert(map, key, value) ==
    [k \in (DOMAIN map) \cup {key} |-> IF k = key THEN value ELSE map[k]]
MapRemove(map, key) == [k \in (DOMAIN map) \ {key} |-> map[k]]
contains_key(map, key) == key \in DOMAIN map

\* One invoked trait method: of a component, or of the context ctx_id.
ComponentCall(component, method) ==
    [kind |-> "component", component |-> component, ctx_id |-> None,
     method |-> method]
ContextCall(self, ctx_id, method) ==
    [kind |-> "context", component |-> self.contexts[ctx_id].component_type,
     ctx_id |-> Some(ctx_id), method |-> method]
\* One write to a registry: a map insert or remove, or a store to a field.
RegistryWrite(registry, method) ==
    [kind |-> "registry", component |-> registry, ctx_id |-> None,
     method |-> method]
\* The trait methods among a handler's effects, in order.
TraitCalls(ret) == SelectSeq(ret.effects, LAMBDA e : e.kind # "registry")

\* ------------------------------------------------------------- backends

\* The results a backend call may return besides Ok.
BackendErrors == {"ComponentError"}

\* Trait defaults whose create_context succeeds.
trait_default_with_contexts(method) ==
    IF method \in {"resource_flush", "create_blob", "map", "unmap", "export_fence"}
    THEN "Unsupported"
    ELSE "Ok"

\* trait RutabagaComponent: the result of each fallible method's default body.
TraitDefaultResult(method) ==
    IF method \in {"resource_flush", "create_blob", "map", "unmap",
                   "export_fence", "create_context"}
    THEN "Unsupported"
    ELSE "Ok"

\* trait RutabagaComponent::create_3d, the default body: an empty resource.
DefaultCreate3d(resource_id) ==
    RutabagaResource(resource_id, None, FALSE, {}, None, None, None, None)

\* The 2D component's resource: host memory of the requested size, no handle.
Rutabaga2DResource(resource_id) ==
    RutabagaResource(resource_id, None, FALSE, {}, None,
                     Some([width |-> 1, height |-> 1]), None, None)

\* The results component `component` may return from `method`: the 2D
\* component creates and transfers in host memory and keeps the trait
\* defaults otherwise; the renderers and the cross-domain backend are opaque.
ComponentResults(component, method) ==
    IF component = "Rutabaga2D"
    THEN IF method = "create_3d" THEN {"Ok"}
         ELSE IF method \in {"transfer_write", "transfer_read"}
         THEN {"Ok", "ComponentError"}
         ELSE {TraitDefaultResult(method)}
    ELSE {"Ok"} \cup BackendErrors

\* The resources a successful create_3d of `component` may return.
Create3dResources(component, resource_id) ==
    IF component = "Rutabaga2D"
    THEN {Rutabaga2DResource(resource_id)}
    ELSE {DefaultCreate3d(resource_id),
          RutabagaResource(resource_id, Some(ArcHandle(resource_id, 1)), FALSE,
                           {}, None, None, Some("Resource3DInfo"), None)}

\* The resources a successful create_blob / context_create_blob may return:
\* a blob with a handle, its use flags those of the request.
CreateBlobResources(resource_id) ==
    {RutabagaResource(resource_id, Some(ArcHandle(resource_id, 1)), TRUE,
                      {RUTABAGA_BLOB_FLAG_USE_MAPPABLE}, Some(1), None, None, None),
     RutabagaResource(resource_id, Some(ArcHandle(resource_id, 1)), TRUE,
                      {RUTABAGA_BLOB_FLAG_USE_MAPPABLE, RUTABAGA_BLOB_FLAG_USE_SHAREABLE},
                      Some(1), None, None, Some("VulkanInfo")),
     RutabagaResource(resource_id, Some(ArcHandle(resource_id, 1)), TRUE,
                      {RUTABAGA_BLOB_FLAG_USE_CROSS_DEVICE}, None, None, None, None)}

\* The outcomes of a delegated create: an error, or Ok with a resource.
CreateOutcomes(results, resources) ==
    {[result |-> e, resource |-> None] : e \in results \ {"Ok"}}
    \cup (IF "Ok" \in results
          THEN {[result |-> "Ok", resource |-> Some(r)] : r \in resources}
          ELSE {})

\* The context a component's create_context returns: of that component's
\* type.
NewContext(component) == [component_type |-> component]

\* The guest's scatter/gather lists handed to attach_backing.
IovecLists == {<<"iov1">>, <<"iov1", "iov2">>}

\* --------------------------------------------------------- impl Rutabaga

default_present(self) == self.default_component \in self.components

\* A capset_id_to_component_type that searches the static catalog.
capset_id_to_component_type_static(self, capset_id) ==
    LET found == FindCapsetById(RUTABAGA_CAPSETS, capset_id)
    IN  IF IsSome(found)
        THEN [result |-> "Ok", value |-> Some(Unwrap(found).component)]
        ELSE [result |-> "InvalidCapset", value |-> None]

capset_id_to_component_type(self, capset_id) ==
    LET found == FindCapsetById(self.capset_info, capset_id)
    IN  IF IsSome(found)
        THEN [result |-> "Ok", value |-> Some(Unwrap(found).component)]
        ELSE [result |-> "InvalidCapset", value |-> None]

\* capset_id_to_component_type(capset_id).unwrap_or(self.default_component)
component_type_or_default(self, capset_id) ==
    LET r == capset_id_to_component_type(self, capset_id)
    IN  IF r.result = "Ok" THEN Unwrap(r.value) ELSE self.default_component

\* A capset_index_to_component_info that takes the index for a capset id.
capset_index_to_component_info_by_id(self, index) ==
    LET found == FindCapsetById(self.capset_info, index)
    IN  IF IsSome(found)
        THEN [result |-> "Ok", value |-> found]
        ELSE [result |-> "InvalidCapset", value |-> None]

capset_index_to_component_info(self, index) ==
    IF index >= Len(self.capset_info)
    THEN [result |-> "InvalidCapset", value |-> None]
    ELSE [result |-> "Ok", value |-> Some(self.capset_info[index + 1])]

\* info is the (version, size) the component's get_capset_info reports.
get_capset_info(self, index, info) ==
    LET capset_info == capset_index_to_component_info(self, index)
    IN  IF capset_info.result # "Ok"
        THEN Ret(self, capset_info.result, None, << >>)
        ELSE LET ci == Unwrap(capset_info.value)
             IN  IF ci.component \notin self.components
                 THEN Ret(self, "InvalidComponent", None, << >>)
                 ELSE Ret(self, "Ok", Some(<<ci.capset_id, info[1], info[2]>>),
                          <<ComponentCall(ci.component, "get_capset_info")>>)

\* A get_capset that refuses a capset id the catalog does not resolve.
get_capset_strict(self, capset_id, version, caps) ==
    LET r == capset_id_to_component_type(self, capset_id)
    IN  IF r.result # "Ok"
        THEN Ret(self, r.result, None, << >>)
        ELSE IF Unwrap(r.value) \notin self.components
        THEN Ret(self, "InvalidComponent", None, << >>)
        ELSE Ret(self, "Ok", Some(caps), <<ComponentCall(Unwrap(r.value), "get_capset")>>)

\* caps is the byte vector the component's get_capset returns.
get_capset(self, capset_id, version, caps) ==
    LET component_type == component_type_or_default(self, capset_id)
    IN  IF component_type \notin self.components
        THEN Ret(self, "InvalidComponent", None, << >>)
        ELSE Ret(self, "Ok", Some(caps), <<ComponentCall(component_type, "get_capset")>>)

force_ctx_0(self) ==
    IF default_present(self)
    THEN Ret(self, "Ok", None, <<ComponentCall(self.default_component, "force_ctx_0")>>)
    ELSE Ret(self, "Ok", None, << >>)

\* A create_fence that falls back to the default component's timeline when
\* the fence's context is not in the registry.
create_fence_fallback(self, fence, out) ==
    IF RUTABAGA_FLAG_INFO_RING_IDX \in fence.flags
       /\ contains_key(self.contexts, fence.ctx_id)
    THEN Ret(self, out, None, <<ContextCall(self, fence.ctx_id, "context_create_fence")>>)
    ELSE IF ~default_present(self)
         THEN Ret(self, "InvalidComponent", None, << >>)
         ELSE Ret(self, out, None, <<ComponentCall(self.default_component, "create_fence")>>)

\* out is the result of the delegated create_fence.
create_fence(self, fence, out) ==
    IF RUTABAGA_FLAG_INFO_RING_IDX \in fence.flags
    THEN IF ~contains_key(self.contexts, fence.ctx_id)
         THEN Ret(self, "InvalidContextId", None, << >>)
         ELSE Ret(self, out, None, <<ContextCall(self, fence.ctx_id, "context_create_fence")>>)
    ELSE IF ~default_present(self)
         THEN Ret(self, "InvalidComponent", None, << >>)
         ELSE Ret(self, out, None, <<ComponentCall(self.default_component, "create_fence")>>)

event_poll(self) ==
    IF default_present(self)
    THEN Ret(self, "Ok", None, <<ComponentCall(self.default_component, "event_poll")>>)
    ELSE Ret(self, "Ok", None, << >>)

\* descriptor is the Option the component's poll_descriptor returns.
poll_descriptor(self, descriptor) ==
    IF default_present(self)
    THEN Ret(self, "Ok", descriptor, <<ComponentCall(self.default_component, "poll_descriptor")>>)
    ELSE Ret(self, "Ok", None, << >>)

\* A resource_create_3d without the contains_key check: the insert replaces.
resource_create_3d_overwrite(self, resource_id, out) ==
    IF ~default_present(self)
    THEN Ret(self, "InvalidComponent", None, << >>)
    ELSE LET calls == <<ComponentCall(self.default_component, "create_3d")>>
         IN  IF out.result # "Ok"
             THEN Ret(self, out.result, None, calls)
             ELSE Ret([self EXCEPT !.resources =
                           MapInsert(@, resource_id, Unwrap(out.resource))],
                      "Ok", None, Append(calls, RegistryWrite("resources", "insert")))

\* out is the outcome of the component's create_3d.
resource_create_3d(self, resource_id, out) ==
    IF ~default_present(self)
    THEN Ret(self, "InvalidComponent", None, << >>)
    ELSE IF contains_key(self.resources, resource_id)
    THEN Ret(self, "InvalidResourceId", None, << >>)
    ELSE LET calls == <<ComponentCall(self.default_component, "create_3d")>>
         IN  IF out.result # "Ok"
             THEN Ret(self, out.result, None, calls)
             ELSE Ret([self EXCEPT !.resources =
                           MapInsert(@, resource_id, Unwrap(out.resource))],
                      "Ok", None, Append(calls, RegistryWrite("resources", "insert")))

\* An attach_backing that stores the backing before it asks the component.
attach_backing_store_first(self, resource_id, vecs, out) ==
    IF ~default_present(self)
    THEN Ret(self, "InvalidComponent", None, << >>)
    ELSE IF ~contains_key(self.resources, resource_id)
    THEN Ret(self, "InvalidResourceId", None, << >>)
    ELSE Ret([self EXCEPT !.resources[resource_id].backing_iovecs = Some(vecs)],
             out, None,
             <<RegistryWrite("resources", "backing_iovecs"),
               ComponentCall(self.default_component, "attach_backing")>>)

\* out is the result of the component's attach_backing.
attach_backing(self, resource_id, vecs, out) ==
    IF ~default_present(self)
    THEN Ret(self, "InvalidComponent", None, << >>)
    ELSE IF ~contains_key(self.resources, resource_id)
    THEN Ret(self, "InvalidResourceId", None, << >>)
    ELSE LET calls == <<ComponentCall(self.default_component, "attach_backing")>>
         IN  IF out # "Ok"
             THEN Ret(self, out, None, calls)
             ELSE Ret([self EXCEPT !.resources[resource_id].backing_iovecs = Some(vecs)],
                      "Ok", None, Append(calls, RegistryWrite("resources", "backing_iovecs")))

\* A detach_backing that tells the component and keeps the stored backing.
detach_backing_keep(self, resource_id) ==
    IF ~default_present(self)
    THEN Ret(self, "InvalidComponent", None, << >>)
    ELSE IF ~contains_key(self.resources, resource_id)
    THEN Ret(self, "InvalidResourceId", None, << >>)
    ELSE Ret(self, "Ok", None,
             <<ComponentCall(self.default_component, "detach_backing")>>)

detach_backing(self, resource_id) ==
    IF ~default_present(self)
    THEN Ret(self, "InvalidComponent", None, << >>)
    ELSE IF ~contains_key(self.resources, resource_id)
    THEN Ret(self, "InvalidResourceId", None, << >>)
    ELSE Ret([self EXCEPT !.resources[resource_id].backing_iovecs = None],
             "Ok", None,
             <<ComponentCall(self.default_component, "detach_backing"),
               RegistryWrite("resources", "backing_iovecs")>>)

\* An unref_resource that tells the component before it looks the id up.
unref_resource_notify_first(self, resource_id) ==
    IF ~default_present(self)
    THEN Ret(self, "InvalidComponent", None, << >>)
    ELSE LET calls == <<ComponentCall(self.default_component, "unref_resource")>>
         IN  IF ~contains_key(self.resources, resource_id)
             THEN Ret(self, "InvalidResourceId", None, calls)
             ELSE Ret([self EXCEPT !.resources = MapRemove(@, resource_id)],
                      "Ok", None,
                      Append(calls, RegistryWrite("resources", "remove")))

\* An unref_resource that tells the component and keeps the registry entry.
unref_resource_keep(self, resource_id) ==
    IF ~default_present(self)
    THEN Ret(self, "InvalidComponent", None, << >>)
    ELSE IF ~contains_key(self.resources, resource_id)
    THEN Ret(self, "InvalidResourceId", None, << >>)
    ELSE Ret(self, "Ok", None,
             <<ComponentCall(self.default_component, "unref_resource")>>)

unref_resource(self, resource_id) ==
    IF ~default_present(self)
    THEN Ret(self, "InvalidComponent", None, << >>)
    ELSE IF ~contains_key(self.resources, resource_id)
    THEN Ret(self, "InvalidResourceId", None, << >>)
    ELSE Ret([self EXCEPT !.resources = MapRemove(@, resource_id)],
             "Ok", None,
             <<RegistryWrite("resources", "remove"),
               ComponentCall(self.default_component, "unref_resource")>>)

\* A transfer_write that hands the id to the component without a lookup.
transfer_write_unchecked(self, ctx_id, resource_id, out) ==
    IF ~default_present(self)
    THEN Ret(self, "InvalidComponent", None, << >>)
    ELSE Ret(self, out, None,
             <<ComponentCall(self.default_component, "transfer_write")>>)

\* out is the result of the component's transfer_write.
transfer_write(self, ctx_id, resource_id, out) ==
    IF ~default_present(self)
    THEN Ret(self, "InvalidComponent", None, << >>)
    ELSE IF ~contains_key(self.resources, resource_id)
    THEN Ret(self, "InvalidResourceId", None, << >>)
    ELSE Ret(self, out, None,
             <<ComponentCall(self.default_component, "transfer_write")>>)

\* out is the result of the component's transfer_read.
transfer_read(self, ctx_id, resource_id, out) ==
    IF ~default_present(self)
    THEN Ret(self, "InvalidComponent", None, << >>)
    ELSE IF ~contains_key(self.resources, resource_id)
    THEN Ret(self, "InvalidResourceId", None, << >>)
    ELSE Ret(self, out, None,
             <<ComponentCall(self.default_component, "transfer_read")>>)

\* out is the result of the component's resource_flush.
resource_flush(self, resource_id, out) ==
    IF ~default_present(self)
    THEN Ret(self, "Unsupported", None, << >>)
    ELSE IF ~contains_key(self.resources, resource_id)
    THEN Ret(self, "InvalidResourceId", None, << >>)
    ELSE Ret(self, out, None,
             <<ComponentCall(self.default_component, "resource_flush")>>)

\* A resource_create_blob that always asks the default component.
resource_create_blob_default_only(self, ctx_id, resource_id, out) ==
    IF contains_key(self.resources, resource_id)
    THEN Ret(self, "InvalidResourceId", None, << >>)
    ELSE IF ~default_present(self)
    THEN Ret(self, "InvalidComponent", None, << >>)
    ELSE IF ctx_id > 0 /\ ~contains_key(self.contexts, ctx_id)
    THEN Ret(self, "InvalidContextId", None, << >>)
    ELSE LET calls == <<ComponentCall(self.default_component, "create_blob")>>
         IN  IF out.result # "Ok"
             THEN Ret(self, out.result, None, calls)
             ELSE Ret([self EXCEPT !.resources =
                           MapInsert(@, resource_id, Unwrap(out.resource))],
                      "Ok", None, Append(calls, RegistryWrite("resources", "insert")))

\* out is the outcome of the delegated create_blob / context_create_blob.
resource_create_blob(self, ctx_id, resource_id, out) ==
    IF contains_key(self.resources, resource_id)
    THEN Ret(self, "InvalidResourceId", None, << >>)
    ELSE IF ~default_present(self)
    THEN Ret(self, "InvalidComponent", None, << >>)
    ELSE IF ctx_id > 0 /\ ~contains_key(self.contexts, ctx_id)
    THEN Ret(self, "InvalidContextId", None, << >>)
    ELSE LET asked == IF ctx_id > 0
                      THEN <<ContextCall(self, ctx_id, "component_type")>>
                      ELSE << >>
             via_context == ctx_id > 0
                            /\ self.contexts[ctx_id].component_type = "CrossDomain"
             calls == Append(asked,
                             IF via_context
                             THEN ContextCall(self, ctx_id, "context_create_blob")
                             ELSE ComponentCall(self.default_component, "create_blob"))
         IN  IF out.result # "Ok"
             THEN Ret(self, out.result, None, calls)
             ELSE Ret([self EXCEPT !.resources =
                           MapInsert(@, resource_id, Unwrap(out.resource))],
                      "Ok", None, Append(calls, RegistryWrite("resources", "insert")))

\* A map that records the mapping in the resource's map_info.
map_recording(self, resource_id, out) ==
    IF ~default_present(self)
    THEN Ret(self, "InvalidComponent", None, << >>)
    ELSE IF ~contains_key(self.resources, resource_id)
    THEN Ret(self, "InvalidResourceId", None, << >>)
    ELSE Ret(IF out = "Ok"
             THEN [self EXCEPT !.resources[resource_id].map_info = Some(1)]
             ELSE self,
             out, IF out = "Ok" THEN Some("RutabagaMapping") ELSE None,
             <<ComponentCall(self.default_component, "map")>>)

\* out is the result of the component's map.
map(self, resource_id, out) ==
    IF ~default_present(self)
    THEN Ret(self, "InvalidComponent", None, << >>)
    ELSE IF ~contains_key(self.resources, resource_id)
    THEN Ret(self, "InvalidResourceId", None, << >>)
    ELSE Ret(self, out, IF out = "Ok" THEN Some("RutabagaMapping") ELSE None,
             <<ComponentCall(self.default_component, "map")>>)

\* out is the result of the component's unmap.
unmap(self, resource_id, out) ==
    IF ~default_present(self)
    THEN Ret(self, "InvalidComponent", None, << >>)
    ELSE IF ~contains_key(self.resources, resource_id)
    THEN Ret(self, "InvalidResourceId", None, << >>)
    ELSE Ret(self, out, None, <<ComponentCall(self.default_component, "unmap")>>)

map_info(self, resource_id) ==
    IF ~contains_key(self.resources, resource_id)
    THEN Ret(self, "InvalidResourceId", None, << >>)
    ELSE LET resource == self.resources[resource_id]
         IN  IF resource.map_info = None
             THEN Ret(self, "SpecViolation", None, << >>)
             ELSE Ret(self, "Ok", resource.map_info, << >>)

vulkan_info(self, resource_id) ==
    IF ~contains_key(self.resources, resource_id)
    THEN Ret(self, "InvalidResourceId", None, << >>)
    ELSE LET resource == self.resources[resource_id]
         IN  IF resource.vulkan_info = None
             THEN Ret(self, "InvalidVulkanInfo", None, << >>)
             ELSE Ret(self, "Ok", resource.vulkan_info, << >>)

query(self, resource_id) ==
    IF ~contains_key(self.resources, resource_id)
    THEN Ret(self, "InvalidResourceId", None, << >>)
    ELSE LET resource == self.resources[resource_id]
         IN  IF resource.info_3d = None
             THEN Ret(self, "SpecViolation", None, << >>)
             ELSE Ret(self, "Ok", resource.info_3d, << >>)

\* A shareable predicate that holds of every resource.
shareable_always(resource) == TRUE

\* The share mask of export_blob, and its shareable predicate.
share_mask == {RUTABAGA_BLOB_FLAG_USE_SHAREABLE, RUTABAGA_BLOB_FLAG_USE_CROSS_DEVICE}
shareable(resource) == (resource.blob_flags \cap share_mask # {}) \/ ~resource.blob

\* An export_blob whose clone path does not put the handle back.
export_blob_no_restore(self, resource_id, clone_ok) ==
    IF ~contains_key(self.resources, resource_id)
    THEN Ret(self, "InvalidResourceId", None, << >>)
    ELSE LET resource == self.resources[resource_id]
             opt == resource.handle
             taken == [self EXCEPT !.resources[resource_id].handle = None]
             take == RegistryWrite("resources", "handle.take")
         IN  IF IsSome(opt) /\ clone_ok
             THEN Ret(taken, "Ok",
                      Some([object |-> Unwrap(opt).object, clone |-> TRUE]),
                      <<take>>)
             ELSE Ret(taken, "InvalidRutabagaHandle", None, <<take>>)

\* clone_ok tells whether handle.try_clone() succeeds.  The handle is taken
\* out of the resource first and put back only on the clone path's success.
export_blob(self, resource_id, clone_ok) ==
    IF ~contains_key(self.resources, resource_id)
    THEN Ret(self, "InvalidResourceId", None, << >>)
    ELSE LET resource == self.resources[resource_id]
             opt == resource.handle
             taken == [self EXCEPT !.resources[resource_id].handle = None]
             take == RegistryWrite("resources", "handle.take")
         IN  IF IsSome(opt) /\ shareable(resource)
             THEN IF ~clone_ok
                  THEN Ret(taken, "IoError", None, <<take>>)
                  ELSE Ret([taken EXCEPT !.resources[resource_id].handle = opt],
                           "Ok",
                           Some([object |-> Unwrap(opt).object, clone |-> TRUE]),
                           <<take, RegistryWrite("resources", "handle")>>)
             ELSE IF IsSome(opt)
             THEN IF Unwrap(opt).strong = 1
                  THEN Ret(taken, "Ok",
                           Some([object |-> Unwrap(opt).object, clone |-> FALSE]),
                           <<take>>)
                  ELSE Ret(taken, "InvalidRutabagaHandle", None, <<take>>)
             ELSE Ret(taken, "InvalidRutabagaHandle", None, <<take>>)

\* out is the result of the component's export_fence.
export_fence(self, fence_id, out) ==
    IF ~default_present(self)
    THEN Ret(self, "InvalidComponent", None, << >>)
    ELSE Ret(self, out, IF out = "Ok" THEN Some("RutabagaHandle") ELSE None,
             <<ComponentCall(self.default_component, "export_fence")>>)

\* A create_context that makes the creating component the default.
create_context_switch_default(self, ctx_id, context_init, out) ==
    LET capset_id == BitAnd(context_init, RUTABAGA_CONTEXT_INIT_CAPSET_ID_MASK)
        component_type == component_type_or_default(self, capset_id)
    IN  IF component_type \notin self.components
        THEN Ret(self, "InvalidComponent", None, << >>)
        ELSE IF contains_key(self.contexts, ctx_id)
        THEN Ret(self, "InvalidContextId", None, << >>)
        ELSE LET calls == <<ComponentCall(component_type, "create_context")>>
             IN  IF out # "Ok"
                 THEN Ret(self, out, None, calls)
                 ELSE Ret([self EXCEPT !.contexts =
                               MapInsert(@, ctx_id, NewContext(component_type)),
                                       !.default_component = component_type],
                          "Ok", None, Append(calls, RegistryWrite("contexts", "insert")))

\* A create_context that always asks the default component.
create_context_default_only(self, ctx_id, context_init, out) ==
    IF ~default_present(self)
    THEN Ret(self, "InvalidComponent", None, << >>)
    ELSE IF contains_key(self.contexts, ctx_id)
    THEN Ret(self, "InvalidContextId", None, << >>)
    ELSE LET calls == <<ComponentCall(self.default_component, "create_context")>>
         IN  IF out # "Ok"
             THEN Ret(self, out, None, calls)
             ELSE Ret([self EXCEPT !.contexts =
                           MapInsert(@, ctx_id, NewContext(self.default_component))],
                      "Ok", None, Append(calls, RegistryWrite("contexts", "insert")))

\* A create_context that inserts the context entry before the component's
\* create_context has returned, and leaves it there on an error.
create_context_eager(self, ctx_id, context_init, out) ==
    LET capset_id == BitAnd(context_init, RUTABAGA_CONTEXT_INIT_CAPSET_ID_MASK)
        component_type == component_type_or_default(self, capset_id)
    IN  IF component_type \notin self.components
        THEN Ret(self, "InvalidComponent", None, << >>)
        ELSE IF contains_key(self.contexts, ctx_id)
        THEN Ret(self, "InvalidContextId", None, << >>)
        ELSE Ret([self EXCEPT !.contexts =
                      MapInsert(@, ctx_id, NewContext(component_type))],
                 out, None,
                 <<RegistryWrite("contexts", "insert"),
                   ComponentCall(component_type, "create_context")>>)

\* out is the result of the component's create_context.
create_context(self, ctx_id, context_init, out) ==
    LET capset_id == BitAnd(context_init, RUTABAGA_CONTEXT_INIT_CAPSET_ID_MASK)
        component_type == component_type_or_default(self, capset_id)
    IN  IF component_type \notin self.components
        THEN Ret(self, "InvalidComponent", None, << >>)
        ELSE IF contains_key(self.contexts, ctx_id)
        THEN Ret(self, "InvalidContextId", None, << >>)
        ELSE LET calls == <<ComponentCall(component_type, "create_context")>>
             IN  IF out # "Ok"
                 THEN Ret(self, out, None, calls)
                 ELSE Ret([self EXCEPT !.contexts =
                               MapInsert(@, ctx_id, NewContext(component_type))],
                          "Ok", None, Append(calls, RegistryWrite("contexts", "insert")))

\* The resources after the owners of some Arc clones of the handles of the
\* resources in `dropped` have released them.
release_handles(resources, dropped) ==
    [r \in DOMAIN resources |->
        IF r \in dropped /\ IsSome(resources[r].handle)
           /\ Unwrap(resources[r].handle).strong > 1
        THEN [resources[r] EXCEPT !.handle =
                 Some([Unwrap(@) EXCEPT !.strong = @ - 1])]
        ELSE resources[r]]

\* The resources after some owner has cloned the Arc of resource_id's handle.
retain_handle(resources, resource_id) ==
    IF IsSome(resources[resource_id].handle)
       /\ Unwrap(resources[resource_id].handle).strong < MaxStrong
    THEN [resources EXCEPT ![resource_id].handle =
             Some([Unwrap(@) EXCEPT !.strong = @ + 1])]
    ELSE resources

\* A destroy_context that clears the whole context registry.
destroy_context_all(self, ctx_id, dropped) ==
    IF ~contains_key(self.contexts, ctx_id)
    THEN Ret(self, "InvalidContextId", None, << >>)
    ELSE Ret([self EXCEPT !.contexts = << >>,
                          !.resources = release_handles(@, dropped)],
             "Ok", None, <<RegistryWrite("contexts", "remove")>>)

\* A destroy_context that frees the resources the context held.
destroy_context_owning(self, ctx_id, dropped) ==
    IF ~contains_key(self.contexts, ctx_id)
    THEN Ret(self, "InvalidContextId", None, << >>)
    ELSE Ret([self EXCEPT !.contexts = MapRemove(@, ctx_id),
                          !.resources = [r \in DOMAIN @ \ dropped |-> @[r]]],
             "Ok", None, <<RegistryWrite("contexts", "remove")>>)

\* dropped: the resources whose handle the dropped context held a clone of.
destroy_context(self, ctx_id, dropped) ==
    IF ~contains_key(self.contexts, ctx_id)
    THEN Ret(self, "InvalidContextId", None, << >>)
    ELSE Ret([self EXCEPT !.contexts = MapRemove(@, ctx_id),
                          !.resources = release_handles(@, dropped)],
             "Ok", None, <<RegistryWrite("contexts", "remove")>>)

\* clone_ref: whether the context's attach keeps a clone of the handle's Arc.
context_attach_resource(self, ctx_id, resource_id, clone_ref) ==
    IF ~contains_key(self.contexts, ctx_id)
    THEN Ret(self, "InvalidContextId", None, << >>)
    ELSE IF ~contains_key(self.resources, resource_id)
    THEN Ret(self, "InvalidResourceId", None, << >>)
    ELSE Ret([self EXCEPT !.resources = IF clone_ref
                                        THEN retain_handle(@, resource_id)
                                        ELSE @],
             "Ok", None,
             <<ContextCall(self, ctx_id, "component_type"),
               ContextCall(self, ctx_id, "attach")>>)

\* drop_ref: whether the context's detach releases a clone of the handle's Arc.
context_detach_resource(self, ctx_id, resource_id, drop_ref) ==
    IF ~contains_key(self.contexts, ctx_id)
    THEN Ret(self, "InvalidContextId", None, << >>)
    ELSE IF ~contains_key(self.resources, resource_id)
    THEN Ret(self, "InvalidResourceId", None, << >>)
    ELSE Ret([self EXCEPT !.resources = IF drop_ref
                                        THEN release_handles(@, {resource_id})
                                        ELSE @],
             "Ok", None, <<ContextCall(self, ctx_id, "detach")>>)

\* out is the result of the context's submit_cmd.
submit_command(self, ctx_id, out) ==
    IF ~contains_key(self.contexts, ctx_id)
    THEN Ret(self, "InvalidContextId", None, << >>)
    ELSE Ret(self, out, None, <<ContextCall(self, ctx_id, "submit_cmd")>>)

\* ------------------------------------------------------------- the inputs

\* The results a context's fallible methods may return (contexts are opaque).
ContextResults == {"Ok"} \cup BackendErrors

\* The outcomes of the create that resource_create_blob delegates to.
BlobOutcomes(self, ctx_id, resource_id) ==
    CreateOutcomes(
        IF ctx_id > 0 /\ contains_key(self.contexts, ctx_id)
           /\ self.contexts[ctx_id].component_type = "CrossDomain"
        THEN ContextResults
        ELSE ComponentResults(self.default_component, "create_blob"),
        CreateBlobResources(resource_id))

\* The outcomes of the create_3d that resource_create_3d delegates to.
Create3dOutcomes(self, resource_id) ==
    CreateOutcomes(ComponentResults(self.default_component, "create_3d"),
                   Create3dResources(self.default_component, resource_id))

\* The results of the create_context that create_context delegates to.
CreateContextResults(self, context_init) ==
    ComponentResults(
        component_type_or_default(self,
            BitAnd(context_init, RUTABAGA_CONTEXT_INIT_CAPSET_ID_MASK)),
        "create_context")

Fences ==
    [flags : {{}, {RUTABAGA_FLAG_INFO_RING_IDX}}, ctx_id : CtxIds, fence_id : {1}]

CapsetInputs == 0..MaxCapsetInput

\* context_init values: a capset id in the low bits, and one value with a
\* bit above the capset id mask set as well.
ContextInits ==
    CapsetInputs
    \cup {RUTABAGA_CONTEXT_INIT_CAPSET_ID_MASK + 1 + RUTABAGA_CAPSET_CROSS_DOMAIN}

\* Every context mask over the bits 0..MaxMaskBit.
RECURSIVE MaskOf(_)
MaskOf(bits) ==
    IF bits = {} THEN 0
    ELSE LET b == CHOOSE x \in bits : TRUE IN Shl1(b) + MaskOf(bits \ {b})

AllMasks == {MaskOf(bits) : bits \in SUBSET (0..MaxMaskBit)}

\* The masks of the capset name lists the orchestrators under test are built
\* with.
RuntimeMasks ==
    {calculate_context_mask(names) :
        names \in {<< >>, <<"gfxstream">>}}

\* The capset name lists handed to calculate_context_mask: every list without
\* repetition of catalog names and of one name that is not in the catalog.
NameLists ==
    LET names == {RUTABAGA_CAPSETS[i].name : i \in 1..Len(RUTABAGA_CAPSETS)}
                 \cup {"not-a-capset"}
    IN  {s \in UNION {[1..n -> names] : n \in 0..MaxNames} :
            \A i, j \in 1..Len(s) : i # j => s[i] # s[j]}

\* ------------------------------------------- the virtio-scsi request queue

\* The guest puts at most MaxChains descriptor chains on the request queue.
MaxChains == 3

Chains == 1..MaxChains

\* size_of::<virtio_scsi_cmd_resp>(): what bytes_written() reports after the
\* response has been written.
RespBytes == 108

\* Queue::pop: the next available descriptor chain, if any.
pop(queue) ==
    IF queue.avail = << >>
    THEN [queue |-> queue, chain |-> None]
    ELSE [queue |-> [queue EXCEPT !.avail = Tail(@)], chain |-> Some(Head(queue.avail))]

\* Queue::add_used: the chain goes to the used ring with the length written.
add_used(queue, desc_chain, len) ==
    [queue EXCEPT !.used = Append(@, [chain |-> desc_chain, len |-> len]),
                  !.trace = Append(@, <<"add_used", desc_chain>>)]

\* Queue::trigger_interrupt
trigger_interrupt(queue) ==
    [queue EXCEPT !.trace = Append(@, <<"trigger_interrupt">>)]

\* Device::execute_request: the header is read and the response written;
\* either may fail on a chain that is too short.  It has no await point.
execute_request(ok) ==
    IF ok THEN [result |-> "Ok", n |-> RespBytes]
    ELSE [result |-> "Err", n |-> 0]

\* A process_one_request that reports the response size whatever happened.
process_one_request_optimistic(ok) == RespBytes

process_one_request(ok) ==
    LET r == execute_request(ok)
    IN  IF r.result = "Ok" THEN r.n ELSE 0

\* A process_one_chain that returns the chain without an interrupt.
process_one_chain_silent(queue, avail_desc, len) ==
    add_used(queue, avail_desc, len)

\* process_one_chain once it holds the queue: lines 249-250.
process_one_chain(queue, avail_desc, len) ==
    trigger_interrupt(add_used(queue, avail_desc, len))

\* A RefMut that is never released.
drop_ref_mut_leak(borrowed, holder) == borrowed

\* The RefMut of `holder` goes out of scope.
drop_ref_mut(borrowed, holder) == borrowed \ {holder}

\* RefCell::borrow_mut by `holder`: it panics while another borrow is alive.
borrow_mut(w, holder) ==
    IF w.borrowed # {}
    THEN [w EXCEPT !.panicked = TRUE, !.running = FALSE]
    ELSE [w EXCEPT !.borrowed = {holder}]

EmptyQueue == [avail |-> << >>, used |-> << >>, trace |-> << >>]

\* The worker record: `pc` is the position of handle_queue, `current` the
\* chain in hand (being pushed, or of the task being polled), `len` what
\* its process_one_request returned; `popped`, `failed` and `offered` are
\* history: the chains popped, those whose request failed, and how many the
\* guest has made available.
WorkerState(running, pc) ==
    [running |-> running, panicked |-> FALSE, pc |-> pc, current |-> None,
     len |-> None, queue |-> EmptyQueue, evt |-> FALSE,
     background_tasks |-> {}, terminated |-> FALSE, borrowed |-> {},
     popped |-> {}, failed |-> {}, offered |-> 0]

\* No device has been activated.
NotActivated == WorkerState(FALSE, "none")

\* activate has started the worker thread: run_worker polls handle_queue,
\* which has created its empty FuturesUnordered.
Activated == WorkerState(TRUE, "start")

\* ------------------------------------------------------------ the actions

Idle == [names |-> << >>, mask |-> None, types |-> None]

Init ==
    /\ builder = None
    /\ rutabaga = None
    /\ built = None
    /\ unrefd = {}
    /\ capset_calc = Idle
    /\ attachments = {}
    /\ worker = NotActivated

\* RutabagaBuilder::new(default_component, context_mask)
\* build is called once per virtual machine instance.
BuilderNew(masks) ==
    /\ builder = None /\ built = None
    /\ \E default_component \in ComponentTypes, context_mask \in masks :
          builder' = Some(RutabagaBuilder_new(default_component, context_mask))
    /\ UNCHANGED <<rutabaga, built, unrefd, capset_calc, attachments, worker>>

SetDisplayWidth ==
    /\ builder # None
    /\ builder' = Some(set_display_width(Unwrap(builder), 1024))
    /\ UNCHANGED <<rutabaga, built, unrefd, capset_calc, attachments, worker>>

SetDisplayHeight ==
    /\ builder # None
    /\ builder' = Some(set_display_height(Unwrap(builder), 768))
    /\ UNCHANGED <<rutabaga, built, unrefd, capset_calc, attachments, worker>>

\* build consumes the builder and returns the orchestrator or an error.
\* `built` keeps the result and the inits invoked, and with `journal` also
\* what build was given: the builder, the compile-time configuration and the
\* components whose init fails.
Build(journal) ==
    /\ builder # None
    /\ \E cfg \in BuildConfigs, failing \in SUBSET ComponentTypes :
          LET ret == build(Unwrap(builder), cfg, failing)
          IN  /\ rutabaga' = ret.rb
              /\ built' = Some([result |-> ret.result, effects |-> ret.effects,
                                inputs |-> IF journal
                                           THEN Some([self |-> Unwrap(builder),
                                                      cfg |-> cfg,
                                                      failing |-> failing])
                                           ELSE None])
    /\ builder' = None
    /\ UNCHANGED <<unrefd, capset_calc, attachments, worker>>

\* A call of an orchestrator method that returned ret.
Step(ret) ==
    /\ rutabaga' = Some(ret.rb)
    /\ UNCHANGED <<builder, built, capset_calc, attachments, worker>>

\* A call of a context method that returned ret, after which the contexts
\* hold the attachments `after`.  The orchestrator keeps no record of them:
\* `track` tells whether the history is kept.
ContextStep(ret, track, after) ==
    /\ rutabaga' = Some(ret.rb)
    /\ attachments' = IF track /\ ret.result = "Ok" THEN after ELSE attachments
    /\ UNCHANGED <<builder, built, capset_calc, worker>>

GetCapsetInfo ==
    /\ rutabaga # None
    /\ \E index \in 0..Len(RUTABAGA_CAPSETS) :
          Step(get_capset_info(Unwrap(rutabaga), index, <<1, 1>>))
    /\ UNCHANGED unrefd

GetCapset ==
    /\ rutabaga # None
    /\ \E capset_id \in CapsetInputs :
          Step(get_capset(Unwrap(rutabaga), capset_id, 1, <<"caps">>))
    /\ UNCHANGED unrefd

ForceCtx0 ==
    /\ rutabaga # None
    /\ Step(force_ctx_0(Unwrap(rutabaga)))
    /\ UNCHANGED unrefd

CreateFence ==
    /\ rutabaga # None
    /\ \E fence \in Fences, out \in {"Ok"} \cup BackendErrors :
          Step(create_fence(Unwrap(rutabaga), fence, out))
    /\ UNCHANGED unrefd

EventPoll ==
    /\ rutabaga # None
    /\ Step(event_poll(Unwrap(rutabaga)))
    /\ UNCHANGED unrefd

PollDescriptor ==
    /\ rutabaga # None
    /\ \E descriptor \in {None, Some("SafeDescriptor")} :
          Step(poll_descriptor(Unwrap(rutabaga), descriptor))
    /\ UNCHANGED unrefd

ResourceCreate3d ==
    /\ rutabaga # None
    /\ \E resource_id \in ResourceIds :
          LET self == Unwrap(rutabaga)
          IN  \E out \in Create3dOutcomes(self, resource_id) :
                 LET ret == resource_create_3d(self, resource_id, out)
                 IN  /\ Step(ret)
                     /\ unrefd' = IF ret.result = "Ok"
                                  THEN unrefd \ {resource_id} ELSE unrefd

AttachBacking ==
    /\ rutabaga # None
    /\ LET self == Unwrap(rutabaga)
       IN  \E resource_id \in ResourceIds, vecs \in IovecLists,
              out \in ComponentResults(self.default_component, "attach_backing") :
              Step(attach_backing(self, resource_id, vecs, out))
    /\ UNCHANGED unrefd

DetachBacking ==
    /\ rutabaga # None
    /\ \E resource_id \in ResourceIds :
          Step(detach_backing(Unwrap(rutabaga), resource_id))
    /\ UNCHANGED unrefd

UnrefResource ==
    /\ rutabaga # None
    /\ \E resource_id \in ResourceIds :
          LET ret == unref_resource(Unwrap(rutabaga), resource_id)
          IN  /\ Step(ret)
              /\ unrefd' = IF ret.result = "Ok"
                           THEN unrefd \cup {resource_id} ELSE unrefd

TransferWrite ==
    /\ rutabaga # None
    /\ LET self == Unwrap(rutabaga)
       IN  \E ctx_id \in CtxIds, resource_id \in ResourceIds,
              out \in ComponentResults(self.default_component, "transfer_write") :
              Step(transfer_write(self, ctx_id, resource_id, out))
    /\ UNCHANGED unrefd

TransferRead ==
    /\ rutabaga # None
    /\ LET self == Unwrap(rutabaga)
       IN  \E ctx_id \in CtxIds, resource_id \in ResourceIds,
              out \in ComponentResults(self.default_component, "transfer_read") :
              Step(transfer_read(self, ctx_id, resource_id, out))
    /\ UNCHANGED unrefd

ResourceFlush ==
    /\ rutabaga # None
    /\ LET self == Unwrap(rutabaga)
       IN  \E resource_id \in ResourceIds,
              out \in ComponentResults(self.default_component, "resource_flush") :
              Step(resource_flush(self, resource_id, out))
    /\ UNCHANGED unrefd

ResourceCreateBlob ==
    /\ rutabaga # None
    /\ \E ctx_id \in CtxIds, resource_id \in ResourceIds :
          LET self == Unwrap(rutabaga)
          IN  \E out \in BlobOutcomes(self, ctx_id, resource_id) :
                 LET ret == resource_create_blob(self, ctx_id, resource_id, out)
                 IN  /\ Step(ret)
                     /\ unrefd' = IF ret.result = "Ok"
                                  THEN unrefd \ {resource_id} ELSE unrefd

Map ==
    /\ rutabaga # None
    /\ LET self == Unwrap(rutabaga)
       IN  \E resource_id \in ResourceIds,
              out \in ComponentResults(self.default_component, "map") :
              Step(map(self, resource_id, out))
    /\ UNCHANGED unrefd

Unmap ==
    /\ rutabaga # None
    /\ LET self == Unwrap(rutabaga)
       IN  \E resource_id \in ResourceIds,
              out \in ComponentResults(self.default_component, "unmap") :
              Step(unmap(self, resource_id, out))
    /\ UNCHANGED unrefd

MapInfo ==
    /\ rutabaga # None
    /\ \E resource_id \in ResourceIds : Step(map_info(Unwrap(rutabaga), resource_id))
    /\ UNCHANGED unrefd

VulkanInfo ==
    /\ rutabaga # None
    /\ \E resource_id \in ResourceIds : Step(vulkan_info(Unwrap(rutabaga), resource_id))
    /\ UNCHANGED unrefd

Query ==
    /\ rutabaga # None
    /\ \E resource_id \in ResourceIds : Step(query(Unwrap(rutabaga), resource_id))
    /\ UNCHANGED unrefd

ExportBlob ==
    /\ rutabaga # None
    /\ \E resource_id \in ResourceIds, clone_ok \in BOOLEAN :
          Step(export_blob(Unwrap(rutabaga), resource_id, clone_ok))
    /\ UNCHANGED unrefd

ExportFence ==
    /\ rutabaga # None
    /\ LET self == Unwrap(rutabaga)
       IN  \E out \in ComponentResults(self.default_component, "export_fence") :
              Step(export_fence(self, 1, out))
    /\ UNCHANGED unrefd

CreateContext ==
    /\ rutabaga # None
    /\ LET self == Unwrap(rutabaga)
       IN  \E ctx_id \in CtxIds, context_init \in ContextInits :
              \E out \in CreateContextResults(self, context_init) :
                 Step(create_context(self, ctx_id, context_init, out))
    /\ UNCHANGED unrefd

\* The dropped context takes its attachments with it.
DestroyContext(track) ==
    /\ rutabaga # None
    /\ LET self == Unwrap(rutabaga)
       IN  \E ctx_id \in CtxIds, dropped \in SUBSET (DOMAIN self.resources) :
              ContextStep(destroy_context(self, ctx_id, dropped), track,
                          {p \in attachments : p[1] # ctx_id})
    /\ UNCHANGED unrefd

ContextAttachResource(track) ==
    /\ rutabaga # None
    /\ \E ctx_id \in CtxIds, resource_id \in ResourceIds, clone_ref \in BOOLEAN :
          ContextStep(context_attach_resource(Unwrap(rutabaga), ctx_id,
                                              resource_id, clone_ref),
                      track, attachments \cup {<<ctx_id, resource_id>>})
    /\ UNCHANGED unrefd

ContextDetachResource(track) ==
    /\ rutabaga # None
    /\ \E ctx_id \in CtxIds, resource_id \in ResourceIds, drop_ref \in BOOLEAN :
          ContextStep(context_detach_resource(Unwrap(rutabaga), ctx_id,
                                              resource_id, drop_ref),
                      track, attachments \ {<<ctx_id, resource_id>>})
    /\ UNCHANGED unrefd

SubmitCommand ==
    /\ rutabaga # None
    /\ \E ctx_id \in CtxIds, out \in ContextResults :
          Step(submit_command(Unwrap(rutabaga), ctx_id, out))
    /\ UNCHANGED unrefd

\* The embedder encodes its capset names, then decodes the mask again.
CalculateContextMask ==
    /\ capset_calc.mask = None
    /\ capset_calc' = [capset_calc EXCEPT
                          !.mask = Some(calculate_context_mask(capset_calc.names))]
    /\ UNCHANGED <<builder, rutabaga, built, unrefd, attachments, worker>>

CalculateContextTypes ==
    /\ capset_calc.mask # None /\ capset_calc.types = None
    /\ capset_calc' = [capset_calc EXCEPT
                          !.types = Some(calculate_context_types(Unwrap(capset_calc.mask)))]
    /\ UNCHANGED <<builder, rutabaga, built, unrefd, attachments, worker>>

\* ----------------------------------------------------- the specifications

\* The orchestrator: built once, then driven by the device frontend.
Next ==
    \/ BuilderNew(RuntimeMasks) \/ SetDisplayWidth \/ SetDisplayHeight
    \/ Build(FALSE)
    \/ GetCapsetInfo \/ GetCapset \/ ForceCtx0 \/ CreateFence \/ EventPoll
    \/ PollDescriptor \/ ResourceCreate3d \/ AttachBacking \/ DetachBacking
    \/ UnrefResource \/ TransferWrite \/ TransferRead \/ ResourceFlush
    \/ ResourceCreateBlob \/ Map \/ Unmap \/ MapInfo \/ VulkanInfo \/ Query
    \/ ExportBlob \/ ExportFence \/ CreateContext \/ DestroyContext(FALSE)
    \/ ContextAttachResource(FALSE) \/ ContextDetachResource(FALSE)
    \/ SubmitCommand

Spec == Init /\ [][Next]_vars

\* The builder alone, over every default component and every context mask.
NextBuild ==
    \/ BuilderNew(AllMasks) \/ SetDisplayWidth \/ SetDisplayHeight
    \/ Build(TRUE)

SpecBuild == Init /\ [][NextBuild]_vars

\* The capset helpers alone, over every list of capset names.
InitCapset ==
    /\ builder = None
    /\ rutabaga = None
    /\ built = None
    /\ unrefd = {}
    /\ attachments = {}
    /\ worker = NotActivated
    /\ \E names \in NameLists :
          capset_calc = [names |-> names, mask |-> None, types |-> None]

NextCapset == CalculateContextMask \/ CalculateContextTypes

SpecCapset == InitCapset /\ [][NextCapset]_vars

\* Resources and contexts alone, with the history of what each context has
\* attached.
NextAttach ==
    \/ BuilderNew(RuntimeMasks) \/ SetDisplayWidth \/ SetDisplayHeight
    \/ Build(FALSE)
    \/ ResourceCreate3d \/ ResourceCreateBlob \/ UnrefResource
    \/ CreateContext \/ DestroyContext(TRUE)
    \/ ContextAttachResource(TRUE) \/ ContextDetachResource(TRUE)

SpecAttach == Init /\ [][NextAttach]_vars

\* ------------------------------------------- the virtio-scsi worker steps

WorkerStep(w) == worker' = w /\ UNCHANGED gfx_vars

\* The guest makes a descriptor chain available on the request queue.
GuestAddChain ==
    /\ worker.offered < MaxChains
    /\ WorkerStep([worker EXCEPT !.offered = @ + 1,
                                 !.queue.avail = Append(@, worker.offered + 1)])

\* The guest kicks the request queue: the queue's event is signalled.
GuestKick ==
    /\ worker.pc # "none"
    /\ ~worker.evt
    /\ WorkerStep([worker EXCEPT !.evt = TRUE])

\* The executor polls handle_queue: for the first time, or because the
\* event it awaits has been signalled.
PollHandleQueue ==
    /\ worker.running
    /\ worker.pc = "start" \/ (worker.pc = "await" /\ worker.evt)
    /\ WorkerStep([worker EXCEPT !.pc = "select"])

\* select! polls background_tasks.next() (skipped once the stream has
\* terminated): an empty FuturesUnordered yields None and terminates; else
\* one of its tasks is polled.
SelectBackground ==
    /\ worker.running /\ worker.pc = "select" /\ ~worker.terminated
    /\ IF worker.background_tasks = {}
       THEN WorkerStep([worker EXCEPT !.terminated = TRUE])
       ELSE \E chain \in worker.background_tasks :
               WorkerStep([worker EXCEPT !.pc = "task", !.current = Some(chain)])

\* The task runs process_one_request to its end and borrows the queue.
TaskBorrow ==
    /\ worker.running /\ worker.pc = "task"
    /\ \E ok \in BOOLEAN :
          LET chain == Unwrap(worker.current)
              w == borrow_mut(worker, <<"process_one_chain", chain>>)
          IN  WorkerStep(IF w.panicked THEN w
                         ELSE [w EXCEPT !.pc = "task_borrowed",
                                        !.len = Some(process_one_request(ok)),
                                        !.failed = IF ok THEN @ ELSE @ \cup {chain}])

\* The task returns the chain, its RefMut is dropped and the task is done:
\* background_tasks.next() is ready and the loop continues.
TaskComplete ==
    /\ worker.running /\ worker.pc = "task_borrowed"
    /\ LET chain == Unwrap(worker.current)
       IN  WorkerStep([worker EXCEPT
               !.queue = process_one_chain(@, chain, Unwrap(worker.len)),
               !.borrowed = drop_ref_mut(@, <<"process_one_chain", chain>>),
               !.background_tasks = @ \ {chain},
               !.current = None, !.len = None, !.pc = "select"])

\* select! finds the event signalled: the next read of it is armed, a read
\* error continues the loop, a value leads to the pop loop.
SelectEvent ==
    /\ worker.running /\ worker.pc = "select" /\ worker.evt
    /\ \E res \in {"Ok", "Err"} :
          WorkerStep([worker EXCEPT !.evt = FALSE,
                                   !.pc = IF res = "Ok" THEN "pop" ELSE "select"])

\* select! finds nothing ready: handle_queue yields to the executor.
SelectPending ==
    /\ worker.running /\ worker.pc = "select"
    /\ worker.terminated /\ ~worker.evt
    /\ WorkerStep([worker EXCEPT !.pc = "await"])

\* while let Some(chain) = queue.borrow_mut().pop(): the RefMut lives to the
\* end of the iteration; without a chain the loop ends.
PopChain ==
    /\ worker.running /\ worker.pc = "pop"
    /\ LET w == borrow_mut(worker, "handle_queue")
           p == pop(w.queue)
       IN  WorkerStep(
               IF w.panicked THEN w
               ELSE IF p.chain = None
               THEN [w EXCEPT !.borrowed = drop_ref_mut(@, "handle_queue"),
                              !.pc = "select"]
               ELSE [w EXCEPT !.queue = p.queue, !.current = p.chain,
                              !.popped = @ \cup p.chain, !.pc = "push"])

\* background_tasks.push(process_one_chain(..)): the future is stored, not
\* polled; the RefMut of the iteration is dropped.
PushTask ==
    /\ worker.running /\ worker.pc = "push"
    /\ WorkerStep([worker EXCEPT
           !.background_tasks = @ \cup worker.current,
           !.terminated = FALSE,
           !.borrowed = drop_ref_mut(@, "handle_queue"),
           !.current = None, !.pc = "pop"])

\* The kill event ends run_worker; handle_queue is dropped where it last
\* yielded.
Kill ==
    /\ worker.running
    /\ worker.pc \in {"start", "await"}
    /\ WorkerStep([worker EXCEPT !.running = FALSE])

InitScsi ==
    /\ builder = None
    /\ rutabaga = None
    /\ built = None
    /\ unrefd = {}
    /\ capset_calc = Idle
    /\ attachments = {}
    /\ worker = Activated

HandleQueue ==
    \/ PollHandleQueue \/ SelectBackground \/ TaskBorrow \/ TaskComplete
    \/ SelectEvent \/ SelectPending \/ PopChain \/ PushTask

NextScsi == GuestAddChain \/ GuestKick \/ HandleQueue \/ Kill

SpecScsi == InitScsi /\ [][NextScsi]_vars

\* The executor polls a task that can run, a poll runs to its next await,
\* and select! does not pass over a ready future for ever.
FairSpecScsi ==
    /\ SpecScsi
    /\ WF_vars(PollHandleQueue) /\ WF_vars(TaskBorrow) /\ WF_vars(TaskComplete)
    /\ WF_vars(SelectPending) /\ WF_vars(PopChain) /\ WF_vars(PushTask)
    /\ SF_vars(SelectBackground) /\ SF_vars(SelectEvent)

\* ------------------------------------------------------------ properties

\* The orchestrator the frontend drives, once build has returned it.
Orchestrator == Unwrap(rutabaga)
Resources == DOMAIN Orchestrator.resources
Contexts == DOMAIN Orchestrator.contexts

\* The errors a lookup of an absent id or component returns.
NotFoundErrors == {"InvalidResourceId", "InvalidContextId", "InvalidComponent"}

\* What the orchestrator answers when asked about a resource id that is not
\* in the registry (map_info does nothing but the lookup; no resource ever has
\* the id 0).
ResourceNotFound(self) ==
    {map_info(self, r).result : r \in (0..MaxResourceId) \ DOMAIN self.resources}

\* Every outcome of a create of resource_id while the orchestrator is `self`.
CreateAttempts(self, resource_id) ==
    {resource_create_3d(self, resource_id, out) :
        out \in Create3dOutcomes(self, resource_id)}
    \cup UNION {{resource_create_blob(self, ctx_id, resource_id, out) :
                    out \in BlobOutcomes(self, ctx_id, resource_id)} :
                ctx_id \in CtxIds}

\* True when the handler returned by `ret` did nothing to the orchestrator
\* `self` and invoked no method of a component or a context.
Untouched(self, ret) == ret.rb = self /\ TraitCalls(ret) = << >>

\* C1 as the specification words it: while r is in the registry, a further
\* create of r fails with an error that differs from the one a lookup of a
\* missing resource id returns, calls no create and leaves the registry alone.
C1_AlreadyExistsIsDistinct ==
    rutabaga # None =>
        \A r \in Resources : \A x \in CreateAttempts(Orchestrator, r) :
            /\ x.result # "Ok"
            /\ x.result \notin ResourceNotFound(Orchestrator)
            /\ Untouched(Orchestrator, x)

\* C1, amended: while r is in the registry, a further resource_create_3d(r)
\* or resource_create_blob(.., r, ..) fails with InvalidResourceId (the very
\* error a missing resource id gets), calls no component's or context's
\* create, and leaves the registry, the entry of r included, as it was.
C1_DuplicateCreateRejected ==
    rutabaga # None =>
        \A r \in Resources : \A x \in CreateAttempts(Orchestrator, r) :
            /\ x.result = "InvalidResourceId"
            /\ Untouched(Orchestrator, x)
            /\ x.rb.resources[r] = Orchestrator.resources[r]

\* A 3D resource and a blob are registered, and creating either id again is
\* refused.
C1_Witness ==
    /\ rutabaga # None
    /\ \E r, b \in Resources :
          /\ ~Orchestrator.resources[r].blob
          /\ Orchestrator.resources[b].blob
          /\ \A x \in CreateAttempts(Orchestrator, r)
                      \cup CreateAttempts(Orchestrator, b) :
                x.result = "InvalidResourceId"

\* Every outcome of an operation that names resource_id as an existing
\* resource, while the orchestrator is `self`.
ResourceUses(self, resource_id) ==
    {attach_backing(self, resource_id, vecs, out) :
        vecs \in IovecLists,
        out \in ComponentResults(self.default_component, "attach_backing")}
    \cup {detach_backing(self, resource_id), unref_resource(self, resource_id),
          map_info(self, resource_id), vulkan_info(self, resource_id),
          query(self, resource_id)}
    \cup {transfer_write(self, ctx_id, resource_id, out) :
             ctx_id \in CtxIds,
             out \in ComponentResults(self.default_component, "transfer_write")}
    \cup {transfer_read(self, ctx_id, resource_id, out) :
             ctx_id \in CtxIds,
             out \in ComponentResults(self.default_component, "transfer_read")}
    \cup {resource_flush(self, resource_id, out) :
             out \in ComponentResults(self.default_component, "resource_flush")}
    \cup {map(self, resource_id, out) :
             out \in ComponentResults(self.default_component, "map")}
    \cup {unmap(self, resource_id, out) :
             out \in ComponentResults(self.default_component, "unmap")}
    \cup {export_blob(self, resource_id, clone_ok) : clone_ok \in BOOLEAN}

\* Every outcome of attaching resource_id to, or detaching it from, ctx_id.
ContextUses(self, ctx_id, resource_id) ==
    {context_attach_resource(self, ctx_id, resource_id, clone_ref) :
        clone_ref \in BOOLEAN}
    \cup {context_detach_resource(self, ctx_id, resource_id, drop_ref) :
             drop_ref \in BOOLEAN}

\* C2: after a successful unref_resource(r), and until r is created again,
\* attach_backing, detach_backing, unref_resource, transfer_write,
\* transfer_read, resource_flush, map, unmap, map_info, vulkan_info, query
\* and export_blob of r fail with the not-found error InvalidResourceId, and
\* so do context_attach_resource and context_detach_resource of r on a live
\* context (on a context id that is not live they fail with the not-found
\* error InvalidContextId); none of them changes the orchestrator.
C2_UnrefIsFinal ==
    rutabaga # None =>
        \A r \in unrefd :
            /\ \A x \in ResourceUses(Orchestrator, r) :
                  x.result = "InvalidResourceId" /\ Untouched(Orchestrator, x)
            /\ \A c \in CtxIds : \A x \in ContextUses(Orchestrator, c, r) :
                  /\ x.result = IF c \in Contexts THEN "InvalidResourceId"
                                                  ELSE "InvalidContextId"
                  /\ Untouched(Orchestrator, x)

\* A resource has been unref'd while another resource and a context are
\* live.
C2_Witness ==
    /\ rutabaga # None
    /\ unrefd # {}
    /\ Resources # {}
    /\ Contexts # {}

\* The fences create_fence may be given for ctx_id, with the per-ring flag
\* set or clear.
FencesOf(ctx_id, flags) == {f \in Fences : f.ctx_id = ctx_id /\ f.flags = flags}

\* Every outcome of the operations that look ctx_id up in the context
\* registry before anything else.
ContextLookups(self, ctx_id) ==
    {destroy_context(self, ctx_id, dropped) : dropped \in SUBSET DOMAIN self.resources}
    \cup UNION {ContextUses(self, ctx_id, r) : r \in ResourceIds}
    \cup {submit_command(self, ctx_id, out) : out \in ContextResults}
    \cup {create_fence(self, fence, out) :
             fence \in FencesOf(ctx_id, {RUTABAGA_FLAG_INFO_RING_IDX}),
             out \in ContextResults}

\* Every outcome of resource_create_blob on behalf of ctx_id.
BlobCreates(self, ctx_id, resource_id) ==
    {resource_create_blob(self, ctx_id, resource_id, out) :
        out \in BlobOutcomes(self, ctx_id, resource_id)}

\* Every outcome of the operations that carry ctx_id but do not look it up
\* first: the transfers, create_fence with the per-ring flag clear, and
\* resource_create_blob.
ContextCarriers(self, ctx_id) ==
    UNION {{transfer_write(self, ctx_id, r, out) :
               out \in ComponentResults(self.default_component, "transfer_write")}
           \cup {transfer_read(self, ctx_id, r, out) :
                    out \in ComponentResults(self.default_component, "transfer_read")}
           \cup BlobCreates(self, ctx_id, r) : r \in ResourceIds}
    \cup {create_fence(self, fence, out) :
             fence \in FencesOf(ctx_id, {}),
             out \in ComponentResults(self.default_component, "create_fence")}

\* C3 as the specification words it: each of create_fence,
\* resource_create_blob, transfer_write, transfer_read, destroy_context,
\* context_attach_resource, context_detach_resource and submit_command, given
\* a ctx_id that is not in the context registry, fails with a not-found
\* error and invokes no component or context method.
C3_EveryContextOpLooksUp ==
    rutabaga # None =>
        \A c \in CtxIds \ Contexts :
            \A x \in ContextLookups(Orchestrator, c)
                     \cup ContextCarriers(Orchestrator, c) :
                x.result \in NotFoundErrors /\ TraitCalls(x) = << >>

\* C3, amended: given a ctx_id that is not in the context registry,
\* destroy_context, context_attach_resource, context_detach_resource,
\* submit_command and create_fence with the per-ring flag set fail with
\* InvalidContextId, and resource_create_blob with a nonzero ctx_id fails
\* (with InvalidResourceId if the resource id is taken, else InvalidComponent
\* if the default component is not instantiated, else InvalidContextId); all
\* of them invoke no component or context method and change nothing.
\* transfer_write, transfer_read, create_fence with the flag clear and
\* resource_create_blob with ctx_id 0 are not covered: they do not consult
\* the context registry.
C3_MissingContextRejected ==
    rutabaga # None =>
        \A c \in CtxIds \ Contexts :
            /\ \A x \in ContextLookups(Orchestrator, c) :
                  x.result = "InvalidContextId" /\ Untouched(Orchestrator, x)
            /\ c > 0 =>
                  \A r \in ResourceIds : \A x \in BlobCreates(Orchestrator, c, r) :
                      /\ x.result = IF r \in Resources THEN "InvalidResourceId"
                                    ELSE IF ~default_present(Orchestrator)
                                    THEN "InvalidComponent"
                                    ELSE "InvalidContextId"
                      /\ Untouched(Orchestrator, x)

\* The nonzero context id is not live while context 0 and a resource are, a
\* blob create on its behalf is refused with InvalidContextId, and a
\* transfer_write that names it reaches the component.
C3_Witness ==
    /\ rutabaga # None
    /\ 0 \in Contexts /\ Resources # {}
    /\ \E c \in CtxIds \ Contexts :
          /\ \E r \in ResourceIds : \E x \in BlobCreates(Orchestrator, c, r) :
                x.result = "InvalidContextId"
          /\ \E r \in Resources :
                transfer_write(Orchestrator, c, r, "Ok").result = "Ok"

\* C4 as the specification words it: create_fence with the per-ring flag
\* set and a live ctx_id invokes exactly that context's create-fence and not
\* the default component's; with the flag set and a ctx_id that is not live
\* it fails with not-found and invokes nothing; with the flag clear it
\* invokes exactly the default component's create_fence and no context's,
\* whatever ctx_id is.
C4_FencesRouteByRingFlag ==
    rutabaga # None =>
        \A fence \in Fences : \A out \in ContextResults :
            LET x == create_fence(Orchestrator, fence, out)
            IN  IF RUTABAGA_FLAG_INFO_RING_IDX \in fence.flags
                THEN IF fence.ctx_id \in Contexts
                     THEN /\ TraitCalls(x) =
                                <<ContextCall(Orchestrator, fence.ctx_id,
                                              "context_create_fence")>>
                          /\ x.result = out
                     ELSE /\ x.result = "InvalidContextId"
                          /\ TraitCalls(x) = << >>
                ELSE /\ TraitCalls(x) =
                           <<ComponentCall(Orchestrator.default_component,
                                           "create_fence")>>
                     /\ x.result = out

\* C4 where the default component is in the component set: the routing is as
\* the specification words it.
C4_RoutingWithDefaultPresent ==
    (rutabaga # None /\ default_present(Orchestrator)) => C4_FencesRouteByRingFlag

\* The resources that hold a handle, by what export_blob makes of them.
ShareableWithHandle(self) ==
    {r \in DOMAIN self.resources :
        IsSome(self.resources[r].handle) /\ shareable(self.resources[r])}
ExclusiveBlobs(self) ==
    {r \in DOMAIN self.resources :
        /\ self.resources[r].blob
        /\ self.resources[r].blob_flags \cap share_mask = {}}

\* n exports of resource_id in a row, clones[i] telling whether the i-th
\* try_clone succeeds: the sequence of the n handler outcomes.
RECURSIVE Exports(_, _, _)
Exports(self, resource_id, clones) ==
    IF clones = << >> THEN << >>
    ELSE LET x == export_blob(self, resource_id, Head(clones))
         IN  <<x>> \o Exports(x.rb, resource_id, Tail(clones))

CloneRuns == UNION {[1..n -> BOOLEAN] : n \in 1..MaxExports}

ExclusiveExports ==
    rutabaga # None =>
        \A r \in ExclusiveBlobs(Orchestrator) : \A clones \in CloneRuns :
            LET resource == Orchestrator.resources[r]
                xs == Exports(Orchestrator, r, clones)
                later == {i \in 1..Len(xs) : i > 1}
            IN  /\ \A i \in 1..Len(xs) : xs[i].rb.resources[r].handle = None
                /\ \A i \in later : xs[i].result = "InvalidRutabagaHandle"
                /\ IF IsSome(resource.handle)
                      /\ Unwrap(resource.handle).strong = 1
                   THEN /\ xs[1].result = "Ok"
                        /\ xs[1].value =
                              Some([object |-> Unwrap(resource.handle).object,
                                    clone |-> FALSE])
                   ELSE xs[1].result = "InvalidRutabagaHandle"

\* No handler gives a registered blob without a share bit its handle back.
HandleStaysGone ==
    (rutabaga # None /\ rutabaga' # None) =>
        \A r \in ExclusiveBlobs(Orchestrator) \cap DOMAIN Unwrap(rutabaga').resources :
            Orchestrator.resources[r].handle = None
                => Unwrap(rutabaga').resources[r].handle = None

\* C6: for a blob with neither share bit set, export_blob fails with
\* InvalidRutabagaHandle while the handle has two or more strong references;
\* with exactly one it succeeds and moves the handle out, leaving the
\* resource without a handle; from then on the resource stays without a
\* handle and every later export_blob of it fails with
\* InvalidRutabagaHandle.
C6_ExportIsExclusive == []ExclusiveExports /\ [][HandleStaysGone]_vars

\* One blob without a share bit has had its handle moved out, and another's
\* handle has a second owner.
C6_Witness ==
    /\ rutabaga # None
    /\ \E r, b \in ExclusiveBlobs(Orchestrator) :
          /\ Orchestrator.resources[r].handle = None
          /\ IsSome(Orchestrator.resources[b].handle)
          /\ Unwrap(Orchestrator.resources[b].handle).strong > 1

\* The names of the catalog.
CatalogNames == {RUTABAGA_CAPSETS[i].name : i \in 1..Len(RUTABAGA_CAPSETS)}
\* The elements of a sequence.
Range(seq) == {seq[i] : i \in 1..Len(seq)}

\* C7: for every list S of capset names without repetition,
\* calculate_context_types(calculate_context_mask(S)) lists, as a set,
\* exactly the names of S that are in the catalog, each once; the names of S
\* that are not in the catalog contribute no bit, and every catalog name of S
\* contributes the bit of its capset id.
C7_CapsetRoundTrip ==
    /\ capset_calc.mask # None =>
          Unwrap(capset_calc.mask) =
              MaskOf({Unwrap(FindCapsetByName(RUTABAGA_CAPSETS, n)).capset_id :
                         n \in Range(capset_calc.names) \cap CatalogNames})
    /\ capset_calc.types # None =>
          LET types == Unwrap(capset_calc.types)
          IN  /\ Range(types) = Range(capset_calc.names) \cap CatalogNames
              /\ \A i, j \in 1..Len(types) : i # j => types[i] # types[j]

\* A list that mixes catalog names of three components with a name that is
\* not in the catalog has been encoded and decoded.
C7_Witness ==
    /\ capset_calc.types # None
    /\ {"not-a-capset", "virgl", "gfxstream", "cross-domain"}
           \subseteq Range(capset_calc.names)
    /\ Len(Unwrap(capset_calc.types)) = Len(capset_calc.names) - 1

\* C8: whenever the default component build resolves is VirglRenderer or
\* Gfxstream and the matching feature is not compiled in, build fails with
\* InvalidRutabagaBuild, returns no orchestrator, and no component's init has
\* been called.
C8_DisabledDefaultRejected ==
    \A b \in built : \A given \in b.inputs :
        LET default_component == resolved_default(given.self)
        IN  (\/ default_component = "VirglRenderer" /\ ~given.cfg.virgl_renderer
             \/ default_component = "Gfxstream" /\ ~given.cfg.gfxstream)
            => /\ b.result = "InvalidRutabagaBuild"
               /\ b.effects = << >>
               /\ rutabaga = None

\* build has rejected a builder whose mask made Gfxstream the default in
\* place of the requested 2D component, in a configuration that compiles the
\* virgl renderer and not gfxstream.
C8_Witness ==
    \E b \in built : \E given \in b.inputs :
        /\ given.self.default_component = "Rutabaga2D"
        /\ resolved_default(given.self) = "Gfxstream"
        /\ given.cfg.virgl_renderer /\ ~given.cfg.gfxstream
        /\ given.self.display_width # None
        /\ b.result = "InvalidRutabagaBuild"

\* An orchestrator built with the 2D default component (and so with a zero
\* mask: a nonzero mask never resolves to the 2D component).
Is2D(self) ==
    self.default_component = "Rutabaga2D" /\ self.components = {"Rutabaga2D"}

\* C9: on an orchestrator built with the 2D default component and a zero
\* mask, for every resource id r that is not registered: resource_create_3d(r)
\* succeeds and the registry then contains r; attach_backing(r, iovecs)
\* succeeds; unref_resource(r) succeeds and removes r; and a transfer_write(0,
\* r, ..) that follows fails with the not-found error InvalidResourceId.
C9_EndToEnd2D ==
    (rutabaga # None /\ Is2D(Orchestrator)) =>
        \A r \in ResourceIds \ Resources :
        \A out \in Create3dOutcomes(Orchestrator, r) :
        \A vecs \in IovecLists :
        \A attached \in ComponentResults("Rutabaga2D", "attach_backing") :
        \A written \in ComponentResults("Rutabaga2D", "transfer_write") :
            LET create == resource_create_3d(Orchestrator, r, out)
                attach == attach_backing(create.rb, r, vecs, attached)
                unref == unref_resource(attach.rb, r)
                write == transfer_write(unref.rb, 0, r, written)
            IN  /\ create.result = "Ok" /\ r \in DOMAIN create.rb.resources
                /\ attach.result = "Ok"
                /\ attach.rb.resources[r].backing_iovecs = Some(vecs)
                /\ unref.result = "Ok" /\ r \notin DOMAIN unref.rb.resources
                /\ write.result = "InvalidResourceId"
                /\ TraitCalls(write) = << >>

\* On a 2D orchestrator one resource has been created and given backing,
\* another has been created and unref'd, and a transfer_write of the latter
\* is refused.
C9_Witness ==
    /\ rutabaga # None /\ Is2D(Orchestrator)
    /\ \E r \in Resources : Orchestrator.resources[r].backing_iovecs # None
    /\ \E r \in unrefd :
          transfer_write(Orchestrator, 0, r, "Ok").result = "InvalidResourceId"

\* Every outcome of a create_context of ctx_id while the orchestrator is
\* `self`.
ContextCreates(self, ctx_id) ==
    UNION {{create_context(self, ctx_id, context_init, out) :
               out \in CreateContextResults(self, context_init)} :
           context_init \in ContextInits}

\* C10: whenever resource_create_3d, resource_create_blob or create_context
\* returns an error, whatever the cause, the resource registry and the
\* context registry are exactly as they were before the call.
C10_FailedCreateInsertsNothing ==
    rutabaga # None =>
        /\ \A r \in ResourceIds : \A x \in CreateAttempts(Orchestrator, r) :
              x.result # "Ok" =>
                  /\ x.rb.resources = Orchestrator.resources
                  /\ x.rb.contexts = Orchestrator.contexts
        /\ \A c \in CtxIds : \A x \in ContextCreates(Orchestrator, c) :
              x.result # "Ok" =>
                  /\ x.rb.resources = Orchestrator.resources
                  /\ x.rb.contexts = Orchestrator.contexts

\* With a resource and a context registered and an id of each kind free,
\* creates fail for a taken id and for a backend error alike.
C10_Witness ==
    /\ rutabaga # None
    /\ \E r \in Resources : \E x \in CreateAttempts(Orchestrator, r) :
          x.result = "InvalidResourceId"
    /\ \E r \in ResourceIds \ Resources : \E x \in CreateAttempts(Orchestrator, r) :
          x.result = "ComponentError" /\ TraitCalls(x) # << >>
    /\ \E c \in Contexts : \E x \in ContextCreates(Orchestrator, c) :
          x.result = "InvalidContextId"
    /\ \E c \in CtxIds \ Contexts : \E x \in ContextCreates(Orchestrator, c) :
          x.result = "ComponentError" /\ TraitCalls(x) # << >>

\* C11: an unref_resource(r) that fails because r is not in the registry
\* invokes no component's unref_resource and leaves the orchestrator as it
\* was; a successful unref_resource(r) invokes the default component's
\* unref_resource exactly once, and nothing else.
C11_FailedUnrefIsSilent ==
    rutabaga # None =>
        \A r \in ResourceIds :
            LET x == unref_resource(Orchestrator, r)
            IN  /\ r \notin Resources =>
                      /\ x.result \in {"InvalidResourceId", "InvalidComponent"}
                      /\ Untouched(Orchestrator, x)
                /\ x.result = "Ok" =>
                      /\ r \in Resources
                      /\ TraitCalls(x) =
                            <<ComponentCall(Orchestrator.default_component,
                                            "unref_resource")>>
                      /\ x.rb.contexts = Orchestrator.contexts
                      /\ DOMAIN x.rb.resources = Resources \ {r}

\* One id has been unref'd and is refused now, while another resource can
\* still be unref'd.
C11_Witness ==
    /\ rutabaga # None
    /\ \E r \in unrefd : unref_resource(Orchestrator, r).result = "InvalidResourceId"
    /\ \E r \in Resources : unref_resource(Orchestrator, r).result = "Ok"

\* Every outcome of the operations that delegate and write a registry once the
\* delegated call has returned.
DelegateThenWrite(self) ==
    UNION {CreateAttempts(self, r)
           \cup {attach_backing(self, r, vecs, out) :
                    vecs \in IovecLists,
                    out \in ComponentResults(self.default_component, "attach_backing")}
           \cup {detach_backing(self, r)} : r \in ResourceIds}
    \cup UNION {ContextCreates(self, c) : c \in CtxIds}

\* Every outcome of unref_resource.
Unrefs(self) == {unref_resource(self, r) : r \in ResourceIds}

\* In the effects of ret every registry write comes after every invoked trait
\* method, and there is a write only if the handler returned Ok.
WritesFollowCalls(ret) ==
    /\ \A i, j \in 1..Len(ret.effects) :
          (ret.effects[i].kind = "registry" /\ ret.effects[j].kind # "registry")
              => j < i
    /\ (\E i \in 1..Len(ret.effects) : ret.effects[i].kind = "registry")
          => ret.result = "Ok"

\* C12 as the specification words it: in resource_create_3d,
\* resource_create_blob, create_context, attach_backing, detach_backing and
\* unref_resource the registry is written only after the delegated call has
\* returned successfully.
C12_EveryWriteFollowsItsCall ==
    rutabaga # None =>
        \A x \in DelegateThenWrite(Orchestrator) \cup Unrefs(Orchestrator) :
            WritesFollowCalls(x)

\* C12, amended: in resource_create_3d, resource_create_blob, create_context,
\* attach_backing and detach_backing the registry is written only after the
\* delegated call has returned successfully, and a call that returns an error
\* leaves the orchestrator as it was; unref_resource is the exception: it
\* removes the registry entry first and invokes the component's
\* unref_resource (which cannot fail) afterwards.
C12_WritesFollowCallsButUnref ==
    rutabaga # None =>
        /\ \A x \in DelegateThenWrite(Orchestrator) :
              /\ WritesFollowCalls(x)
              /\ x.result # "Ok" => x.rb = Orchestrator
              /\ x.rb # Orchestrator =>
                    \E i \in 1..Len(x.effects) : x.effects[i].kind = "registry"
        /\ \A x \in Unrefs(Orchestrator) :
              x.result = "Ok" =>
                  x.effects = <<RegistryWrite("resources", "remove"),
                                ComponentCall(Orchestrator.default_component,
                                              "unref_resource")>>

\* A resource with backing and a context are registered (creates, an
\* attach_backing and their writes have happened), an id has been unref'd,
\* and an attach_backing that the component refuses writes nothing.
C12_Witness ==
    /\ rutabaga # None
    /\ Contexts # {} /\ unrefd # {}
    /\ \E r \in Resources :
          /\ Orchestrator.resources[r].backing_iovecs # None
          /\ \E vecs \in IovecLists :
                LET x == attach_backing(Orchestrator, r, vecs, "ComponentError")
                IN  x.result = "ComponentError" /\ x.rb = Orchestrator

\* The capset ids the orchestrator's catalog does not resolve, among those
\* the guest asks for and one beyond them.
Unrecognized(self) ==
    {id \in 0..(MaxCapsetInput + 1) : FindCapsetById(self.capset_info, id) = None}

\* C13: get_capset with a capset id that the catalog does not resolve is
\* served by the default component (its get_capset is the one method invoked)
\* and never fails with InvalidCapset; it fails only with InvalidComponent,
\* and exactly when the default component is not instantiated.
C13_CapsetFallback ==
    rutabaga # None =>
        \A capset_id \in Unrecognized(Orchestrator) :
            LET x == get_capset(Orchestrator, capset_id, 0, "caps")
            IN  /\ x.rb = Orchestrator
                /\ IF default_present(Orchestrator)
                   THEN /\ x.result = "Ok" /\ x.value = Some("caps")
                        /\ TraitCalls(x) =
                              <<ComponentCall(Orchestrator.default_component,
                                              "get_capset")>>
                   ELSE x.result = "InvalidComponent" /\ TraitCalls(x) = << >>

\* An orchestrator whose catalog holds the gfxstream capset only: the virgl
\* capset ids and the unknown id 0 are served by the default component.
C13_Witness ==
    /\ rutabaga # None
    /\ Orchestrator.capset_info # << >>
    /\ {0, RUTABAGA_CAPSET_VIRGL2} \subseteq Unrecognized(Orchestrator)
    /\ get_capset(Orchestrator, RUTABAGA_CAPSET_VIRGL2, 0, "caps").result = "Ok"

\* What the orchestrator answers when asked about a context id that is not
\* in the registry (no context ever has the id MaxCtxId + 1).
ContextNotFound(self) ==
    {submit_command(self, c, "Ok").result :
        c \in (0..(MaxCtxId + 1)) \ DOMAIN self.contexts}

\* The routing of create_context: the component that owns the capset id in
\* the low bits of context_init, the default component if none does, is the
\* component get_capset resolves for that capset id; on success that
\* component's create_context is the one method invoked and ctx_id is
\* registered with the context it returned.
CreateContextRouted(self) ==
    \A c \in CtxIds : \A context_init \in ContextInits :
        LET capset_id == context_init % (RUTABAGA_CONTEXT_INIT_CAPSET_ID_MASK + 1)
            found == FindCapsetById(self.capset_info, capset_id)
            component == IF IsSome(found) THEN Unwrap(found).component
                         ELSE self.default_component
        IN  \A out \in CreateContextResults(self, context_init) :
                LET x == create_context(self, c, context_init, out)
                    served == get_capset(self, capset_id, 0, "caps")
                IN  x.result = "Ok" =>
                        /\ TraitCalls(x) =
                              <<ComponentCall(component, "create_context")>>
                        /\ TraitCalls(served) =
                              <<ComponentCall(component, "get_capset")>>
                        /\ c \notin DOMAIN self.contexts
                        /\ c \in DOMAIN x.rb.contexts
                        /\ x.rb.contexts[c] = NewContext(component)

\* C14 as the specification words it: the routing above, and a
\* create_context of a live ctx_id fails with an already-exists error, one
\* that differs from the error a missing context id gets, without invoking a
\* component and without replacing the context.
C14_LiveContextAlreadyExists ==
    rutabaga # None =>
        /\ CreateContextRouted(Orchestrator)
        /\ \A c \in Contexts : \A x \in ContextCreates(Orchestrator, c) :
              /\ x.result # "Ok"
              /\ x.result \notin ContextNotFound(Orchestrator)
              /\ Untouched(Orchestrator, x)

\* C14, amended: the routing above, and a create_context of a live ctx_id
\* fails with InvalidContextId (the very error a missing context id gets; the
\* code has no already-exists kind) without invoking a component and without
\* replacing the context.
C14_CreateContextRouting ==
    rutabaga # None =>
        /\ CreateContextRouted(Orchestrator)
        /\ \A c \in Contexts : \A x \in ContextCreates(Orchestrator, c) :
              /\ x.result = "InvalidContextId"
              /\ Untouched(Orchestrator, x)

\* On an orchestrator whose default is a renderer, the cross-domain
\* component has created a live context, whose id a further create_context
\* is refused.
C14_Witness ==
    /\ rutabaga # None
    /\ Orchestrator.default_component \in {"VirglRenderer", "Gfxstream"}
    /\ \E c \in Contexts :
          /\ Orchestrator.contexts[c].component_type = "CrossDomain"
          /\ \A x \in ContextCreates(Orchestrator, c) : x.result = "InvalidContextId"

\* The blob creates among a handler's effects.
BlobCreateCalls(ret) ==
    SelectSeq(ret.effects,
              LAMBDA e : e.method \in {"create_blob", "context_create_blob"})

\* C15: resource_create_blob(ctx_id, r, ..) for an r that is not registered
\* delegates to the context's context_create_blob if and only if ctx_id is
\* nonzero, is a live context, and that context's component_type is
\* CrossDomain; in every other case that gets as far as delegating (ctx_id 0,
\* or a live context of another component type) it delegates to the default
\* component's create_blob; exactly one of the two is invoked, and on success
\* r is inserted with the returned resource.
C15_BlobCreateRouting ==
    rutabaga # None =>
        \A c \in CtxIds : \A r \in ResourceIds \ Resources :
        \A out \in BlobOutcomes(Orchestrator, c, r) :
            LET x == resource_create_blob(Orchestrator, c, r, out)
                live == c \in Contexts
                via_context ==
                    c # 0 /\ live
                    /\ Orchestrator.contexts[c].component_type = "CrossDomain"
                delegates == default_present(Orchestrator) /\ (c = 0 \/ live)
            IN  /\ BlobCreateCalls(x) =
                      IF ~delegates THEN << >>
                      ELSE IF via_context
                      THEN <<ContextCall(Orchestrator, c, "context_create_blob")>>
                      ELSE <<ComponentCall(Orchestrator.default_component,
                                           "create_blob")>>
                /\ delegates => x.result = out.result
                /\ ~delegates => x.result \in NotFoundErrors
                /\ IF x.result = "Ok"
                   THEN /\ DOMAIN x.rb.resources = Resources \cup {r}
                        /\ x.rb.resources[r] = Unwrap(out.resource)
                        /\ \A q \in Resources :
                              x.rb.resources[q] = Orchestrator.resources[q]
                   ELSE x.rb = Orchestrator

\* On an orchestrator whose default is a renderer, the nonzero context id is
\* a live cross-domain context, context 0 is live too, and a blob is
\* registered while another id is free.
C15_Witness ==
    /\ rutabaga # None
    /\ Orchestrator.default_component \in {"VirglRenderer", "Gfxstream"}
    /\ 0 \in Contexts
    /\ \E c \in Contexts \ {0} :
          Orchestrator.contexts[c].component_type = "CrossDomain"
    /\ \E r \in Resources : Orchestrator.resources[r].blob
    /\ ResourceIds \ Resources # {}

\* C16: detach_backing(r) on a registered resource r always returns Ok and
\* leaves r's backing None, whether or not backing was attached before; it
\* invokes the component's detach_backing, changes no other field of r, no
\* other resource and no context.
C16_DetachAlwaysClears ==
    rutabaga # None =>
        \A r \in Resources :
            LET x == detach_backing(Orchestrator, r)
            IN  /\ x.result = "Ok"
                /\ x.rb.resources[r].backing_iovecs = None
                /\ x.rb = [Orchestrator EXCEPT
                              !.resources[r].backing_iovecs = None]
                /\ TraitCalls(x) =
                      <<ComponentCall(Orchestrator.default_component,
                                      "detach_backing")>>

\* One resource has backing attached and another has none.
C16_Witness ==
    /\ rutabaga # None
    /\ \E r, q \in Resources :
          /\ Orchestrator.resources[r].backing_iovecs # None
          /\ Orchestrator.resources[q].backing_iovecs = None
          /\ detach_backing(Orchestrator, r).result = "Ok"

\* The capset ids of the catalog entries owned by `component`.
CapsetsOwnedBy(component) ==
    {RUTABAGA_CAPSETS[i].capset_id :
        i \in {j \in 1..Len(RUTABAGA_CAPSETS) :
                  RUTABAGA_CAPSETS[j].component = component}}

\* The default component C17 expects build to resolve.
DefaultByOwnership(self) ==
    IF self.context_mask = 0 THEN self.default_component
    ELSE IF \E id \in CapsetsOwnedBy("Gfxstream") : BitSet(self.context_mask, id)
    THEN "Gfxstream"
    ELSE IF \E id \in CapsetsOwnedBy("VirglRenderer") : BitSet(self.context_mask, id)
    THEN "VirglRenderer"
    ELSE "CrossDomain"

\* C17 as the specification words it: with a nonzero mask the default
\* component build resolves is Gfxstream if the gfxstream bit is set,
\* otherwise VirglRenderer if the bit of any capset the catalog gives to
\* VirglRenderer (virgl, virgl2, venus, drm) is set, otherwise CrossDomain,
\* whatever default was requested; with a zero mask it is the requested
\* default.  A successful build returns an orchestrator with that default.
C17_DefaultFromMask ==
    \A b \in built : \A given \in b.inputs :
        /\ resolved_default(given.self) = DefaultByOwnership(given.self)
        /\ b.result = "Ok" =>
              Orchestrator.default_component = DefaultByOwnership(given.self)

\* C17 apart from the virgl capset: the resolved default is as C17 words it
\* whenever the virgl bit is clear or one of the gfxstream, virgl2, venus and
\* drm bits is set; a mask whose only VirglRenderer-owned bit is virgl
\* resolves to CrossDomain.
C17_DefaultFromMaskButVirgl ==
    \A b \in built : \A given \in b.inputs :
        LET mask == given.self.context_mask
            virgl_alone ==
                /\ BitSet(mask, RUTABAGA_CAPSET_VIRGL)
                /\ \A id \in (CapsetsOwnedBy("VirglRenderer")
                              \cup CapsetsOwnedBy("Gfxstream"))
                             \ {RUTABAGA_CAPSET_VIRGL} : ~BitSet(mask, id)
        IN  resolved_default(given.self) =
                IF virgl_alone THEN "CrossDomain"
                ELSE DefaultByOwnership(given.self)

C19_CatalogPopulation ==
    \A b \in built : \A given \in b.inputs :
        b.result = "Ok" =>
            LET capset_info == Orchestrator.capset_info
                mask == given.self.context_mask
            IN  /\ Range(capset_info) =
                      {e \in Range(RUTABAGA_CAPSETS) :
                          /\ e.component \in Orchestrator.components
                          /\ mask # 0 => BitSet(mask, e.capset_id)}
                /\ \A i, j \in 1..Len(capset_info) :
                      i # j => capset_info[i] # capset_info[j]
                /\ \A e \in Range(capset_info) :
                      e.component \in Orchestrator.components

\* A build with a mask that enables venus and cross-domain and not virgl2 or
\* drm has returned an orchestrator with the virgl renderer, whose catalog
\* holds the two enabled entries only.
C19_Witness ==
    \E b \in built : \E given \in b.inputs :
        /\ b.result = "Ok"
        /\ given.self.context_mask =
              Shl1(RUTABAGA_CAPSET_VENUS) + Shl1(RUTABAGA_CAPSET_CROSS_DOMAIN)
        /\ Orchestrator.components = {"VirglRenderer", "CrossDomain"}
        /\ Len(Orchestrator.capset_info) = 2

\* C20: build either returns an error and no orchestrator, or returns an
\* orchestrator whose resource and context registries are empty; a resolved
\* Gfxstream default with a missing display width or height fails with
\* InvalidRutabagaBuild; and an init that fails makes build fail with its
\* error.
C20_AtomicConstruction ==
    \A b \in built : \A given \in b.inputs :
        /\ b.result # "Ok" => rutabaga = None
        /\ b.result = "Ok" =>
              /\ rutabaga # None
              /\ Orchestrator.resources = << >>
              /\ Orchestrator.contexts = << >>
              /\ Orchestrator.components = Range(b.effects)
        /\ (/\ resolved_default(given.self) = "Gfxstream"
            /\ \/ given.self.display_width = None
               \/ given.self.display_height = None)
           => b.result = "InvalidRutabagaBuild"
        /\ (Range(b.effects) \cap given.failing # {})
           => b.result = "ComponentError" /\ rutabaga = None

\* A build whose Gfxstream init succeeded and whose CrossDomain init failed
\* has returned the error and no orchestrator.
C20_Witness ==
    \E b \in built : \E given \in b.inputs :
        /\ b.effects = <<"Gfxstream", "CrossDomain">>
        /\ given.failing = {"CrossDomain"}
        /\ b.result = "ComponentError"
        /\ rutabaga = None

\* No step of an orchestrator operation changes what build fixed.
ConfigurationKept ==
    (rutabaga # None /\ rutabaga' # None) =>
        /\ Unwrap(rutabaga').components = Orchestrator.components
        /\ Unwrap(rutabaga').default_component = Orchestrator.default_component
        /\ Unwrap(rutabaga').capset_info = Orchestrator.capset_info

\* C21: after build, no orchestrator operation adds or removes a component,
\* changes which component is the default, or changes the orchestrator's
\* capset catalog.
C21_ConfigurationIsFixed == [][ConfigurationKept]_vars

\* Resources and a context have been created and a resource unref'd on an
\* orchestrator with two components and a catalog.
C21_Witness ==
    /\ rutabaga # None
    /\ Cardinality(Orchestrator.components) = 2
    /\ Orchestrator.capset_info # << >>
    /\ Resources # {} /\ Contexts # {} /\ unrefd # {}

\* C22: destroy_context(c) succeeds exactly when c is in the context
\* registry, and then removes c and no other context; for a c that is not in
\* the registry it fails with InvalidContextId and changes nothing; once c is
\* destroyed, and in every state where c is not in the registry,
\* submit_command, context_attach_resource, context_detach_resource,
\* create_fence with the per-ring flag and destroy_context on c fail with
\* InvalidContextId.
C22_ContextLifecycle ==
    rutabaga # None =>
        \A c \in CtxIds : \A dropped \in SUBSET Resources :
            LET x == destroy_context(Orchestrator, c, dropped)
            IN  /\ x.result = "Ok" <=> c \in Contexts
                /\ x.result = "Ok" =>
                      /\ DOMAIN x.rb.contexts = Contexts \ {c}
                      /\ \A d \in Contexts \ {c} :
                            x.rb.contexts[d] = Orchestrator.contexts[d]
                      /\ DOMAIN x.rb.resources = Resources
                /\ x.result # "Ok" =>
                      x.result = "InvalidContextId" /\ Untouched(Orchestrator, x)
                /\ \A y \in ContextLookups(x.rb, c) :
                      y.result = "InvalidContextId" /\ Untouched(x.rb, y)

\* Both context ids are live and either can be destroyed.
C22_Witness ==
    /\ rutabaga # None
    /\ Contexts = CtxIds
    /\ Resources # {}
    /\ \A c \in Contexts : destroy_context(Orchestrator, c, {}).result = "Ok"

\* get_capset and create_context (of a context id that is not live) are
\* both served by component: its method is the one invoked, and the
\* operation fails with InvalidComponent, invoking nothing, when component is
\* not instantiated.
ServedBy(self, capset_id, component) ==
    LET g == get_capset(self, capset_id, 0, "caps")
    IN  /\ IF component \in self.components
           THEN /\ g.result = "Ok"
                /\ TraitCalls(g) = <<ComponentCall(component, "get_capset")>>
           ELSE g.result = "InvalidComponent" /\ TraitCalls(g) = << >>
        /\ \A c \in CtxIds \ DOMAIN self.contexts :
              LET x == create_context(self, c, capset_id, "Ok")
              IN  IF component \in self.components
                  THEN /\ x.result = "Ok"
                       /\ TraitCalls(x) =
                             <<ComponentCall(component, "create_context")>>
                       /\ x.rb.contexts[c] = NewContext(component)
                  ELSE x.result = "InvalidComponent" /\ Untouched(self, x)

\* The capset ids the guest asks for and one beyond them.
AskedCapsetIds == 0..(MaxCapsetInput + 1)

\* C23 as the specification words it: a capset id of the static catalog is
\* served by the component the static catalog names as its owner, also when
\* the capset was not enabled for this orchestrator, and only an id absent
\* from the static catalog is served by the default component.
C23_StaticCatalogResolution ==
    rutabaga # None =>
        \A capset_id \in AskedCapsetIds :
            LET found == FindCapsetById(RUTABAGA_CAPSETS, capset_id)
            IN  ServedBy(Orchestrator, capset_id,
                         IF IsSome(found) THEN Unwrap(found).component
                         ELSE Orchestrator.default_component)

\* C23, amended: a capset id is served by the component that the
\* orchestrator's own catalog (the static entries build kept for this
\* instance) names as its owner; every other id, an id of the static catalog
\* that was not enabled for this instance included, is served by the default
\* component.
C23_InstanceCatalogResolution ==
    rutabaga # None =>
        \A capset_id \in AskedCapsetIds :
            LET found == FindCapsetById(Orchestrator.capset_info, capset_id)
            IN  ServedBy(Orchestrator, capset_id,
                         IF IsSome(found) THEN Unwrap(found).component
                         ELSE Orchestrator.default_component)

\* The cross-domain component is instantiated but its capset was not enabled:
\* the cross-domain capset id is served by the default component, gfxstream,
\* while the gfxstream id is served through the catalog.
C23_Witness ==
    /\ rutabaga # None
    /\ Orchestrator.default_component = "Gfxstream"
    /\ "CrossDomain" \in Orchestrator.components
    /\ FindCapsetById(Orchestrator.capset_info, RUTABAGA_CAPSET_CROSS_DOMAIN) = None
    /\ FindCapsetById(Orchestrator.capset_info, RUTABAGA_CAPSET_GFXSTREAM) # None
    /\ TraitCalls(get_capset(Orchestrator, RUTABAGA_CAPSET_CROSS_DOMAIN, 0, "caps"))
          = <<ComponentCall("Gfxstream", "get_capset")>>
    /\ \E c \in CtxIds :
          create_context(Orchestrator, c, RUTABAGA_CAPSET_CROSS_DOMAIN, "Ok").result = "Ok"

\* Every outcome of the operations that need the default component, but
\* resource_flush, on every resource id, context id and fence.
DefaultUsesButFlush(self) ==
    LET outs == {"Ok"} \cup BackendErrors
    IN  UNION {CreateAttempts(self, r) : r \in 0..MaxResourceId}
        \cup {create_fence(self, f, out) :
                 f \in {g \in Fences : g.flags = {}}, out \in outs}
        \cup {attach_backing(self, r, vecs, out) :
                 r \in 0..MaxResourceId, vecs \in IovecLists, out \in outs}
        \cup {detach_backing(self, r) : r \in 0..MaxResourceId}
        \cup {unref_resource(self, r) : r \in 0..MaxResourceId}
        \cup {transfer_write(self, c, r, out) :
                 c \in CtxIds, r \in 0..MaxResourceId, out \in outs}
        \cup {transfer_read(self, c, r, out) :
                 c \in CtxIds, r \in 0..MaxResourceId, out \in outs}
        \cup {map(self, r, out) : r \in 0..MaxResourceId, out \in outs}
        \cup {unmap(self, r, out) : r \in 0..MaxResourceId, out \in outs}
        \cup {export_fence(self, 1, out) : out \in outs}

\* Every outcome of resource_flush.
Flushes(self) ==
    {resource_flush(self, r, out) :
        r \in 0..MaxResourceId, out \in {"Ok"} \cup BackendErrors}

\* C24: while the default component is not in the instantiated set,
\* create_fence without the ring flag, resource_create_3d, attach_backing,
\* detach_backing, unref_resource, transfer_write, transfer_read,
\* resource_flush, resource_create_blob, map, unmap and export_fence return
\* InvalidComponent and leave the orchestrator as it was.
C24_InvalidComponentReported ==
    (rutabaga # None /\ ~default_present(Orchestrator)) =>
        \A x \in DefaultUsesButFlush(Orchestrator) \cup Flushes(Orchestrator) :
            x.result = "InvalidComponent" /\ Untouched(Orchestrator, x)

\* What the code does: the eleven operations other than resource_flush
\* return InvalidComponent, resource_flush returns Unsupported; none changes
\* the orchestrator.
C24_InvalidComponentButFlush ==
    (rutabaga # None /\ ~default_present(Orchestrator)) =>
        /\ \A x \in DefaultUsesButFlush(Orchestrator) :
              x.result = "InvalidComponent" /\ Untouched(Orchestrator, x)
        /\ \A x \in Flushes(Orchestrator) :
              x.result = "Unsupported" /\ Untouched(Orchestrator, x)

\* An orchestrator whose default component is not instantiated.
C24_DefaultMissing == rutabaga # None /\ ~default_present(Orchestrator)

\* The three metadata queries of resource_id with the field each one reads.
MetadataQueries(self, resource_id) ==
    <<[ret |-> map_info(self, resource_id), field |-> "map_info",
       missing |-> "SpecViolation"],
      [ret |-> query(self, resource_id), field |-> "info_3d",
       missing |-> "SpecViolation"],
      [ret |-> vulkan_info(self, resource_id), field |-> "vulkan_info",
       missing |-> "InvalidVulkanInfo"]>>

\* C25: map_info(r), query(r) and vulkan_info(r) fail with InvalidResourceId
\* when r is not registered; on a registered r, map_info fails with
\* SpecViolation when the resource has no map info and query fails with
\* SpecViolation when it has no 3D info (vulkan_info fails with
\* InvalidVulkanInfo when it has no Vulkan info), and each returns the
\* stored value otherwise; none invokes a component or changes the
\* orchestrator; a successful map(r) of a resource without map info leaves
\* map_info(r) failing with SpecViolation.
C25_MetadataQueries ==
    rutabaga # None =>
        \A r \in 0..MaxResourceId :
            /\ \A i \in 1..3 : LET q == MetadataQueries(Orchestrator, r)[i] IN
                  /\ Untouched(Orchestrator, q.ret)
                  /\ q.ret.result =
                        IF r \notin Resources THEN "InvalidResourceId"
                        ELSE IF Orchestrator.resources[r][q.field] = None
                        THEN q.missing
                        ELSE "Ok"
                  /\ q.ret.value = IF q.ret.result = "Ok"
                                   THEN Orchestrator.resources[r][q.field]
                                   ELSE None
            /\ \A out \in ComponentResults(Orchestrator.default_component, "map") :
                  LET m == map(Orchestrator, r, out)
                  IN  map_info(m.rb, r).result = map_info(Orchestrator, r).result

\* A resource without map info that the component maps successfully, next
\* to a blob that carries map info and Vulkan info, and an absent id.
C25_Witness ==
    /\ rutabaga # None
    /\ \E r, b \in Resources :
          /\ Orchestrator.resources[r].map_info = None
          /\ Orchestrator.resources[r].info_3d # None
          /\ map(Orchestrator, r, "Ok").result = "Ok"
          /\ map_info(map(Orchestrator, r, "Ok").rb, r).result = "SpecViolation"
          /\ query(Orchestrator, r).result = "Ok"
          /\ map_info(Orchestrator, b).result = "Ok"
          /\ vulkan_info(Orchestrator, b).result = "Ok"
          /\ query(Orchestrator, b).result = "SpecViolation"
    /\ map_info(Orchestrator, 0).result = "InvalidResourceId"

\* An orchestrator whose one component keeps the trait's default bodies for
\* everything it is asked below: the one such orchestrator build returns has
\* the 2D component alone.
Minimal(self) == self.components = {"Rutabaga2D"}

\* The operations that succeed with the trait defaults, on every valid id.
MinimalSucceeds(self) ==
    {resource_create_3d(self, r, [result |-> TraitDefaultResult("create_3d"),
                                  resource |-> Some(DefaultCreate3d(r))]) :
        r \in ResourceIds \ DOMAIN self.resources}
    \cup {attach_backing(self, r, vecs, TraitDefaultResult("attach_backing")) :
             r \in DOMAIN self.resources, vecs \in IovecLists}
    \cup {detach_backing(self, r) : r \in DOMAIN self.resources}
    \cup {transfer_write(self, c, r, TraitDefaultResult("transfer_write")) :
             c \in CtxIds, r \in DOMAIN self.resources}
    \cup {transfer_read(self, c, r, TraitDefaultResult("transfer_read")) :
             c \in CtxIds, r \in DOMAIN self.resources}
    \cup {create_fence(self, f, TraitDefaultResult("create_fence")) :
             f \in {g \in Fences : g.flags = {}}}

\* The operations the trait defaults refuse, on every valid id.
MinimalRefuses(self) ==
    {resource_flush(self, r, TraitDefaultResult("resource_flush")) :
        r \in DOMAIN self.resources}
    \cup {resource_create_blob(self, 0, r,
                               [result |-> TraitDefaultResult("create_blob"),
                                resource |-> None]) :
             r \in ResourceIds \ DOMAIN self.resources}
    \cup {map(self, r, TraitDefaultResult("map")) : r \in DOMAIN self.resources}
    \cup {unmap(self, r, TraitDefaultResult("unmap")) : r \in DOMAIN self.resources}
    \cup {export_fence(self, 1, TraitDefaultResult("export_fence"))}
    \cup {create_context(self, c, context_init,
                         TraitDefaultResult("create_context")) :
             c \in CtxIds, context_init \in ContextInits}

\* C26: on an orchestrator whose only component answers with the trait
\* defaults, resource_create_3d, attach_backing, detach_backing,
\* transfer_write, transfer_read and create_fence without the ring flag
\* succeed on valid ids; resource_flush, resource_create_blob, map, unmap,
\* export_fence and create_context fail with Unsupported and register
\* nothing; the context registry is empty in every reachable state, and
\* every context-scoped operation (a blob create in a context included)
\* fails with InvalidContextId.
C26_MinimalBackend ==
    (rutabaga # None /\ Minimal(Orchestrator)) =>
        /\ \A x \in MinimalSucceeds(Orchestrator) : x.result = "Ok"
        /\ \A x \in MinimalRefuses(Orchestrator) :
              /\ x.result = "Unsupported"
              /\ x.rb = Orchestrator
        /\ Contexts = {}
        /\ \A c \in CtxIds : \A x \in ContextLookups(Orchestrator, c) :
              x.result = "InvalidContextId" /\ Untouched(Orchestrator, x)
        /\ \A c \in CtxIds \ {0} : \A r \in ResourceIds \ Resources :
              resource_create_blob(Orchestrator, c, r,
                                   [result |-> "Ok", resource |-> None]).result
                  = "InvalidContextId"

\* A 2D-only orchestrator with one resource that has a backing and one id
\* free, after an unref.
C26_Witness ==
    /\ rutabaga # None
    /\ Minimal(Orchestrator)
    /\ unrefd # {}
    /\ \E r \in Resources : Orchestrator.resources[r].backing_iovecs # None
    /\ \E x \in MinimalSucceeds(Orchestrator) : DOMAIN x.rb.resources = ResourceIds
    /\ \E r \in Resources :
          resource_flush(Orchestrator, r, "Unsupported").result = "Unsupported"

\* What attach_backing(r, vecs) does in `self` for each result of the
\* component: on a registered r the component's attach_backing is the one
\* method invoked, its result is returned, and the orchestrator differs
\* from before at most in r's backing, which is vecs after Ok and as before
\* after an error; on an r that is not registered nothing is invoked or
\* changed and InvalidResourceId is returned.
AttachBackingFrame(self) ==
    \A r \in 0..MaxResourceId : \A vecs \in IovecLists :
        \A out \in {"Ok"} \cup BackendErrors :
            LET x == attach_backing(self, r, vecs, out)
            IN  IF r \in DOMAIN self.resources
                THEN /\ x.result = out
                     /\ TraitCalls(x) =
                           <<ComponentCall(self.default_component, "attach_backing")>>
                     /\ x.rb = [self EXCEPT !.resources[r].backing_iovecs =
                                   IF out = "Ok" THEN Some(vecs) ELSE @]
                ELSE x.result = "InvalidResourceId" /\ Untouched(self, x)

C27_AttachBackingWithDefault ==
    (rutabaga # None /\ default_present(Orchestrator)) =>
        AttachBackingFrame(Orchestrator)

\* A resource with a backing, which a further attach_backing replaces, next
\* to another resource and a context.
C27_Replaces ==
    /\ rutabaga # None
    /\ Contexts # {}
    /\ Cardinality(Resources) = 2
    /\ \E r \in Resources :
          /\ Orchestrator.resources[r].backing_iovecs = Some(<<"iov1">>)
          /\ attach_backing(Orchestrator, r, <<"iov1", "iov2">>, "Ok")
                .rb.resources[r].backing_iovecs = Some(<<"iov1", "iov2">>)

\* A registry entry without the reference count of the handle it points to:
\* the count belongs to the shared handle, not to the entry.
EntryOf(resource) == [resource EXCEPT !.handle = {h.object : h \in @}]

\* The resource registry of `after` has the keys of `before`, each with the
\* entry it had.
SameEntries(before, after) ==
    /\ DOMAIN after.resources = DOMAIN before.resources
    /\ \A r \in DOMAIN before.resources :
          EntryOf(after.resources[r]) = EntryOf(before.resources[r])

\* destroy_context, context_attach_resource and context_detach_resource
\* leave every entry of the resource registry in place, whatever the context
\* held.
ContextsOwnNothing ==
    rutabaga # None =>
        \A c \in CtxIds :
            /\ \A dropped \in SUBSET Resources :
                  SameEntries(Orchestrator, destroy_context(Orchestrator, c, dropped).rb)
            /\ \A r \in 0..MaxResourceId :
                  \A x \in ContextUses(Orchestrator, c, r) :
                      SameEntries(Orchestrator, x.rb)

\* A step that takes a resource out of the registry is an unref_resource of
\* that resource.
OnlyUnrefRemoves ==
    (rutabaga # None /\ rutabaga' # None) =>
        \A r \in Resources :
            r \notin DOMAIN Unwrap(rutabaga').resources =>
                Unwrap(rutabaga') = unref_resource(Orchestrator, r).rb

\* C28: destroy_context(c) removes or modifies no entry of the resource
\* registry, also when the context holds references to resources, and
\* context_attach_resource and context_detach_resource add or remove no
\* entry of it; an entry leaves the registry only by unref_resource.
C28_ContextsDoNotOwnResources == []ContextsOwnNothing /\ [][OnlyUnrefRemoves]_vars

\* A live context holds a reference to a registered resource's handle, and
\* destroying it succeeds; another resource has been unref'd.
C28_Witness ==
    /\ rutabaga # None
    /\ unrefd # {}
    /\ \E c \in Contexts : \E r \in Resources :
          /\ IsSome(Orchestrator.resources[r].handle)
          /\ Unwrap(Orchestrator.resources[r].handle).strong > 1
          /\ destroy_context(Orchestrator, c, {r}).result = "Ok"
          /\ destroy_context(Orchestrator, c, {r}).rb.resources[r]
                # Orchestrator.resources[r]

\* C29: after every successful build the orchestrator's default component
\* is a member of its instantiated component set, for every requested
\* default, capset mask, feature configuration and platform.
C29_DefaultIsInstantiated ==
    \A b \in built : \A given \in b.inputs :
        b.result = "Ok" =>
            /\ rutabaga # None
            /\ Orchestrator.default_component = resolved_default(given.self)
            /\ default_present(Orchestrator)

\* What the code does: the default component is instantiated after every
\* successful build but the one of a cross-domain default on Fuchsia, which
\* succeeds with no component at all.
C29_DefaultIsInstantiatedButFuchsia ==
    \A b \in built : \A given \in b.inputs :
        b.result = "Ok" =>
            /\ rutabaga # None
            /\ Orchestrator.default_component = resolved_default(given.self)
            /\ IF given.cfg.fuchsia /\ resolved_default(given.self) = "CrossDomain"
               THEN Orchestrator.components = {}
               ELSE default_present(Orchestrator)

\* build has succeeded on Fuchsia with a default the mask resolved.
C29_BuiltOnFuchsia ==
    \E b \in built : \E given \in b.inputs :
        /\ b.result = "Ok"
        /\ given.cfg.fuchsia
        /\ given.self.context_mask # 0
        /\ default_present(Orchestrator)

\* The orchestrator once every other owner of resource_id's handle has
\* released its reference.
OthersReleased(self, resource_id) ==
    [self EXCEPT !.resources[resource_id].handle =
        {[h EXCEPT !.strong = 1] : h \in @}]

\* C30: an export_blob(r) that returns an error (try_clone failing on a
\* shareable resource, or a second strong reference on a blob without a
\* share bit) leaves r's registry entry as it was, handle included, so that
\* an export_blob after the other owners released the handle, with try_clone
\* succeeding, succeeds.
C30_FailedExportKeepsHandle ==
    rutabaga # None =>
        \A r \in Resources : \A clone_ok \in BOOLEAN :
            LET x == export_blob(Orchestrator, r, clone_ok)
            IN  (x.result # "Ok" /\ IsSome(Orchestrator.resources[r].handle)) =>
                    /\ x.rb.resources[r] = Orchestrator.resources[r]
                    /\ export_blob(OthersReleased(x.rb, r), r, TRUE).result = "Ok"

\* What the code does: the handle is taken out of the resource before the
\* export is attempted and is not put back when the export fails, so the
\* resource is left without a handle and every later export_blob fails with
\* InvalidRutabagaHandle, whatever the other owners do.
C30_FailedExportDropsHandle ==
    rutabaga # None =>
        \A r \in Resources : \A clone_ok \in BOOLEAN :
            LET x == export_blob(Orchestrator, r, clone_ok)
            IN  (x.result # "Ok" /\ IsSome(Orchestrator.resources[r].handle)) =>
                    /\ x.result = IF shareable(Orchestrator.resources[r])
                                  THEN "IoError" ELSE "InvalidRutabagaHandle"
                    /\ x.rb = [Orchestrator EXCEPT !.resources[r].handle = None]
                    /\ \A again \in BOOLEAN :
                          export_blob(OthersReleased(x.rb, r), r, again).result
                              = "InvalidRutabagaHandle"

\* A blob without a share bit whose handle has a second owner, and a
\* shareable resource with a handle: an export of either can fail.
C30_ExportsCanFail ==
    /\ rutabaga # None
    /\ \E r, b \in Resources :
          /\ IsSome(Orchestrator.resources[r].handle)
          /\ shareable(Orchestrator.resources[r])
          /\ export_blob(Orchestrator, r, FALSE).result = "IoError"
          /\ IsSome(Orchestrator.resources[b].handle)
          /\ ~shareable(Orchestrator.resources[b])
          /\ Unwrap(Orchestrator.resources[b].handle).strong > 1
          /\ export_blob(Orchestrator, b, TRUE).result = "InvalidRutabagaHandle"

\* The (version, size) pairs a component's get_capset_info may report.
CapsetVersions == {<<0, 0>>, <<1, 16>>}

\* C31: get_capset_info(index) succeeds for every index below the length of
\* the orchestrator's catalog, returning the capset id of the index-th entry
\* with the (version, size) that the entry's owning component reports (its
\* get_capset_info is the one method invoked), and never fails with
\* InvalidComponent, since the owner of every catalog entry is instantiated;
\* for every index at or above the length it fails with InvalidCapset and
\* invokes nothing.
C31_CapsetInfoIsTotal ==
    rutabaga # None =>
        /\ \A i \in 1..Len(Orchestrator.capset_info) :
              Orchestrator.capset_info[i].component \in Orchestrator.components
        /\ \A index \in 0..(Len(Orchestrator.capset_info) + 1) :
              \A info \in CapsetVersions :
                  LET x == get_capset_info(Orchestrator, index, info)
                  IN  /\ x.rb = Orchestrator
                      /\ IF index < Len(Orchestrator.capset_info)
                         THEN LET entry == Orchestrator.capset_info[index + 1]
                              IN  /\ x.result = "Ok"
                                  /\ x.value = Some(<<entry.capset_id,
                                                      info[1], info[2]>>)
                                  /\ TraitCalls(x) =
                                        <<ComponentCall(entry.component,
                                                        "get_capset_info")>>
                         ELSE x.result = "InvalidCapset" /\ TraitCalls(x) = << >>

\* A catalog of five entries owned by two components, whose last entry the
\* cross-domain component answers for.
C31_Witness ==
    /\ rutabaga # None
    /\ Len(Orchestrator.capset_info) = 5
    /\ Cardinality(Orchestrator.components) = 2
    /\ get_capset_info(Orchestrator, 4, <<1, 16>>).value
          = Some(<<RUTABAGA_CAPSET_CROSS_DOMAIN, 1, 16>>)
    /\ get_capset_info(Orchestrator, 5, <<1, 16>>).result = "InvalidCapset"

\* C32: every resource id that a live context has had attached by
\* context_attach_resource, with no context_detach_resource since, is in
\* the resource registry.
C32_NoDanglingAttachment ==
    rutabaga # None =>
        \A p \in attachments : p[1] \in Contexts => p[2] \in Resources

\* What the code does: only live contexts hold attachments, and an
\* attachment whose resource has been unref'd is out of the orchestrator's
\* reach: context_detach_resource of it fails with InvalidResourceId and
\* leaves it in place.
C32_DanglingStays ==
    rutabaga # None =>
        \A p \in attachments :
            /\ p[1] \in Contexts
            /\ p[2] \notin Resources =>
                  \A drop_ref \in BOOLEAN :
                      LET x == context_detach_resource(Orchestrator, p[1], p[2],
                                                       drop_ref)
                      IN  x.result = "InvalidResourceId" /\ Untouched(Orchestrator, x)

\* A resource is attached to both contexts and registered.
C32_Attached ==
    /\ rutabaga # None
    /\ \E r \in Resources : \A c \in CtxIds : <<c, r>> \in attachments

\* The chains on the used ring.
Returned == {worker.queue.used[i].chain : i \in 1..Len(worker.queue.used)}

\* The popped chains that are still on their way: those of the background
\* tasks, and the one handle_queue is about to push.
InFlight ==
    worker.background_tasks
    \cup (IF worker.pc = "push" THEN worker.current ELSE {})

\* What holds of the used ring at every moment: no chain is on it twice; the
\* popped chains are exactly those returned and those in flight, and none
\* is in flight once the worker has stopped; every add_used is directly
\* followed by one trigger_interrupt, and nothing else triggers one; a
\* chain whose request failed is returned with length 0, any other with the
\* size of the response.
ChainsAccounted ==
    LET used == worker.queue.used
        trace == worker.queue.trace
    IN  /\ \A i, j \in 1..Len(used) : used[i].chain = used[j].chain => i = j
        /\ worker.popped = Returned \cup InFlight
        /\ Returned \cap InFlight = {}
        /\ ~worker.running => InFlight = {}
        /\ Len(trace) = 2 * Len(used)
        /\ \A i \in 1..Len(used) :
              /\ trace[2 * i - 1] = <<"add_used", used[i].chain>>
              /\ trace[2 * i] = <<"trigger_interrupt">>
              /\ used[i].len = IF used[i].chain \in worker.failed THEN 0
                               ELSE RespBytes

\* C33: every descriptor chain popped from the request queue is, under fair
\* scheduling, eventually returned to the used ring by add_used, exactly
\* once; each add_used is directly followed by one trigger_interrupt; a
\* chain whose request failed is returned too, with used length 0; no chain
\* is returned twice and none is dropped.
C33_EveryChainReturnedOnce ==
    /\ []ChainsAccounted
    /\ \A chain \in Chains : (chain \in worker.popped) ~> (chain \in Returned)

\* Every chain the guest offered has been returned, one of them after its
\* request failed and another after it succeeded, not in the order popped.
C33_Witness ==
    /\ Returned = Chains
    /\ \E i, j \in 1..Len(worker.queue.used) :
          /\ worker.queue.used[i].len = 0
          /\ worker.queue.used[j].len = RespBytes
    /\ worker.queue.used[1].chain # 1

\* C34: the RefCell of the request queue has at most one mutable borrow at
\* any moment, in every interleaving of the pop loop with the background
\* tasks: while handle_queue holds it (popping, pushing a task) no task is
\* polled, and a task holds it only from its borrow_mut to its end; no
\* borrow_mut panics.
C34_NoBorrowPanic ==
    /\ ~worker.panicked
    /\ Cardinality(worker.borrowed) <= 1
    /\ worker.borrowed = (IF worker.pc = "push" THEN {"handle_queue"}
                          ELSE IF worker.pc = "task_borrowed"
                          THEN {<<"process_one_chain", Unwrap(worker.current)>>}
                          ELSE {})

\* handle_queue holds the borrow for a popped chain while tasks pushed
\* earlier have not run yet.
C34_Witness ==
    /\ worker.pc = "push"
    /\ worker.borrowed = {"handle_queue"}
    /\ Cardinality(worker.background_tasks) = 2
    /\ worker.queue.used = << >>

=============================================================================
